---- MODULE Spec2Model ----
(***************************************************************************)
(* Cell-lineage linking core of OrganoidTracker: the links graph between   *)
(* detected positions, and the analysis algorithms that walk it            *)
(* (spur removal, cell fate, division counting).                           *)
(*                                                                         *)
(* A position is <<lane, time point>>: the lane stands for the x/y/z       *)
(* coordinates, so two positions of one time point differ in their lane.   *)
(* A links graph is [nodes, edges]; an edge <<s, t>> links s to the        *)
(* position t of the next time point.                                      *)
(***************************************************************************)
EXTENDS Integers, Sequences, FiniteSets, TLC

VARIABLES
    graph,                            \* experiment.links: [nodes, edges]
    end_markers,                      \* position -> end marker ("NONE" when absent)
    error_markers,                    \* the positions that carry an error marker
    division_lookahead_time_points,   \* experiment.division_lookahead_time_points
    op,                               \* the operation that ran last
    args,                             \* its arguments
    result,                           \* its return value
    before,                           \* the graph as it was when the operation started
    runs,                             \* how many times _remove_spurs ran
    position_data,                    \* generic position data of the links:
                                      \* the set of <<position, data name, value>>
    link_data,                        \* links in the D3.js node-link format
    track_to_color,                   \* LineageTreeVisualizer._track_to_color
    current_particle,                 \* get_fate: the particle the loop is at
    visited,                          \* get_fate: the particles the loop has been at
    mask,                             \* a Mask: its offsets, maxima and array
    particle_list,                    \* WarningsVisualizer._particle_list
    current_particle_index,           \* WarningsVisualizer._current_particle_index
    pending_command_text,             \* Visualizer._pending_command_text
    controls_enabled,                 \* Visualizer._controls_enabled
    _visualizer,                      \* visualizer._visualizer, the active one
    handlers,                         \* the handlers connected to the canvas
    calls,                            \* the calls made to overridable methods
    disk,                             \* file name -> contents of the file
    pc                                \* the statement a running operation is at

\* The variables of the links and their analysis.
links_vars == <<graph, end_markers, error_markers, division_lookahead_time_points,
                op, args, result, before, runs, position_data, link_data,
                track_to_color>>

\* The variables of the walk of get_fate, the masks, the visualizers and the
\* files.
view_vars == <<current_particle, visited, mask, particle_list, current_particle_index,
               pending_command_text, controls_enabled, _visualizer, handlers,
               calls, disk, pc>>

vars == <<links_vars, view_vars>>

----------------------------------------------------------------------------
(* Bounds *)

\* Time points of the spur-removal inputs are 0..MaxTime.
MaxTime == 4

\* _remove_spurs is run at most this many times in a row.
MaxRuns == 2

\* Time points of the lineages given to get_fate and to
\* get_division_count_in_lineage are 0..MaxDepth.
MaxDepth == 3

\* division_lookahead_time_points is drawn from 0..MaxLookahead.
MaxLookahead == 1

\* Time points of the links shown in the lineage tree are 0..MaxTreeTime.
MaxTreeTime == 2

\* The numbers stored in a shape are drawn from 0..MaxValue.
MaxValue == 1

\* A Gaussian is given by this many numbers.
GaussianParameters == 3

\* The lists without a valid shape have a tag and up to MaxRestLength numbers.
MaxRestLength == 2

\* Time points of the links that are saved and loaded are 0..MaxIoTime.
MaxIoTime == 2

\* Time points of the lineages with three lanes are 0..MaxWideDepth.
MaxWideDepth == 2

\* Time points of the links in a file that is loaded, and of the links the
\* experiment has before, are 0..MaxLoadTime.
MaxLoadTime == 1

\* Time points of the positions with errors and warnings are
\* 0..MaxWarningTime.
MaxWarningTime == 1

\* At most this many saves are started.
MaxSaves == 3

\* The visualizers that are made are 1..MaxVisualizers.
MaxVisualizers == 3

\* A command that is typed has at most this many characters.
MaxCommandLength == 2

\* The coordinates of bounding boxes are drawn from 0..MaxCoordinate.
MaxCoordinate == 2

\* At most this many methods are called on one Mask.
MaxMaskCalls == 3

Lanes == {"a", "b"}

\* The variables of view_vars while none of their operations runs.
ViewIdle ==
    /\ current_particle = <<>>
    /\ visited = <<>>
    /\ mask = <<>>
    /\ particle_list = <<>>
    /\ current_particle_index = -1
    /\ pending_command_text = <<>>
    /\ controls_enabled = TRUE
    /\ _visualizer = <<>>
    /\ handlers = <<>>
    /\ calls = <<>>
    /\ disk = <<>>
    /\ pc = "idle"

\* A third lane, for the inputs with divisions into three daughters.
WideLanes == Lanes \cup {"c"}

LaneIndex(lane) == CASE lane = "a" -> 0 [] lane = "b" -> 1 [] OTHER -> 2

----------------------------------------------------------------------------
(* Positions and the links graph *)

time_point_number(p) == p[2]

PositionsUpTo(T) == Lanes \X (0..T)

WidePositionsUpTo(T) == WideLanes \X (0..T)

\* Order in which a set of positions is iterated: by time point, then lane.
Rank(p) == 3 * p[2] + LaneIndex(p[1])

RECURSIVE Ordered(_, _)
Ordered(S, reversed) ==
    IF S = {} THEN <<>>
    ELSE LET first == IF reversed
                      THEN CHOOSE p \in S : \A q \in S : Rank(q) <= Rank(p)
                      ELSE CHOOSE p \in S : \A q \in S : Rank(p) <= Rank(q)
         IN <<first>> \o Ordered(S \ {first}, reversed)

EmptyGraph == [nodes |-> {}, edges |-> {}]

\* No node-link data.
NoLinkData == [nodes |-> <<>>, links |-> <<>>]

find_future_particles(g, particle) ==
    {e[2] : e \in {d \in g.edges : d[1] = particle}}

find_past_particles(g, particle) ==
    {e[1] : e \in {d \in g.edges : d[2] = particle}}

\* Links.has_links: whether there is any link at all.
has_links(g) == g.edges # {}

\* The first time point of the experiment.
first_time_point_number == 0

\* Cells without a predecessor that are not in the first time point.
find_appeared_cells(g) ==
    {p \in g.nodes : /\ find_past_particles(g, p) = {}
                     /\ time_point_number(p) # first_time_point_number}

\* Experiment.remove_particle: the node goes, with every link it is part of.
remove_particle(g, particle) ==
    [nodes |-> g.nodes \ {particle},
     edges |-> {e \in g.edges : e[1] # particle /\ e[2] # particle}]

----------------------------------------------------------------------------
(* Tracks: maximal runs of positions connected by single-child links.      *)
(* A track is the sequence of its positions, derived from the graph.       *)

\* q continues the track of p: q is the only future of p, p the only past of q.
continues_track(g, p, q) ==
    /\ find_future_particles(g, p) = {q}
    /\ find_past_particles(g, q) = {p}

RECURSIVE find_first_position(_, _)
find_first_position(g, p) ==
    IF \E q \in find_past_particles(g, p) : continues_track(g, q, p)
    THEN find_first_position(g, CHOOSE q \in find_past_particles(g, p) : TRUE)
    ELSE p

RECURSIVE positions_from(_, _)
positions_from(g, p) ==
    IF \E q \in find_future_particles(g, p) : continues_track(g, p, q)
    THEN <<p>> \o positions_from(g, CHOOSE q \in find_future_particles(g, p) : TRUE)
    ELSE <<p>>

\* Links.get_track: the track that contains p.
get_track(g, p) == positions_from(g, find_first_position(g, p))

find_last_position(track) == track[Len(track)]

min_time_point_number(track) == time_point_number(track[1])

max_time_point_number(track) == time_point_number(track[Len(track)])

\* LinkingTrack.get_next_tracks: the tracks that start where this one ends.
get_next_tracks(g, track) ==
    {positions_from(g, q) : q \in find_future_particles(g, find_last_position(track))}

\* All tracks of the graph.
find_all_tracks(g) == {get_track(g, p) : p \in g.nodes}

\* Links.get_track gives no track for a position without linking data.
has_track(g, position) == position \in g.nodes

\* Links.find_starting_tracks: the tracks without a previous track.
find_starting_tracks(g) ==
    {positions_from(g, p) : p \in {q \in g.nodes : find_past_particles(g, q) = {}}}

----------------------------------------------------------------------------
(* links_postprocessor: spur removal *)

\* Tracks that end after fewer than this many links are removed.
min_track_length == 3

\* Variant: a track of exactly 3 links counts as too short.
TooShortSloppy(track_length) == track_length <= min_track_length

\* if track_length < 3
TooShort(track_length) == track_length < min_track_length

\* Variant: only the last particle of the track is removed.
RemoveLastOnly(g, particles_in_track) ==
    remove_particle(g, particles_in_track[Len(particles_in_track)])

\* for particle_in_track in particles_in_track:
\*     experiment.remove_particle(particle_in_track)
RECURSIVE remove_particles(_, _)
remove_particles(g, particles_in_track) ==
    IF particles_in_track = <<>> THEN g
    ELSE remove_particles(remove_particle(g, Head(particles_in_track)),
                          Tail(particles_in_track))

RECURSIVE _walk_spur(_, _, _, _, _)
RECURSIVE _check_each(_, _, _)

\* The while loop of _check_for_and_remove_spur, one iteration per call.
_walk_spur(g, particle, track_length, particles_in_track, reversed) ==
    LET next_particles == find_future_particles(g, particle) IN
    IF Cardinality(next_particles) = 0
    THEN \* End of track
         IF TooShort(track_length)
         THEN remove_particles(g, particles_in_track)
         ELSE g
    ELSE IF Cardinality(next_particles) > 1
    THEN \* Cell division
         _check_each(g, Ordered(next_particles, reversed), reversed)
    ELSE LET next_particle == CHOOSE p \in next_particles : TRUE
         IN _walk_spur(g, next_particle, track_length + 1,
                       Append(particles_in_track, next_particle), reversed)

\* Variant: the walk from a daughter starts with the mother in its track.
_check_for_and_remove_spur_with_mother(g, particle, reversed) ==
    _walk_spur(g, particle, 0,
               Ordered(find_past_particles(g, particle), FALSE) \o <<particle>>, reversed)

_check_for_and_remove_spur(g, particle, reversed) ==
    _walk_spur(g, particle, 0, <<particle>>, reversed)

\* for particle in ...: _check_for_and_remove_spur(experiment, graph, particle)
_check_each(g, todo, reversed) ==
    IF todo = <<>> THEN g
    ELSE _check_each(_check_for_and_remove_spur(g, Head(todo), reversed),
                     Tail(todo), reversed)

\* Variant: every position without a previous position is walked from.
_remove_spurs_from_all_starts(g, reversed) ==
    _check_each(g, Ordered({p \in g.nodes : find_past_particles(g, p) = {}}, reversed),
                reversed)

_remove_spurs(g, reversed) ==
    _check_each(g, Ordered(find_appeared_cells(g), reversed), reversed)

----------------------------------------------------------------------------
(* linking_markers *)

EndMarkers == {"DEAD", "SHED"}

\* The end marker of the position, "NONE" when it has none.
get_track_end_marker(markers, position) == markers[position]

\* Whether the position has an error marker.
has_error_marker(errors, position) == position \in errors

----------------------------------------------------------------------------
(* cell_fate_finder *)

\* Optional[int]: None is the empty sequence.
None == <<>>
Some(n) == <<n>>

CellFate(type, time_points_remaining) ==
    [type |-> type, time_points_remaining |-> time_points_remaining]

find_futures(g, particle) == find_future_particles(g, particle)

\* len(next_particles) == 0 and get_track_end_marker(links, particle) == EndMarker.DEAD
IsDeath(next_particles, end_marker) ==
    Cardinality(next_particles) = 0 /\ end_marker = "DEAD"

\* Variant: error markers do not stop the walk.
StopsFollowingIgnoringErrors(next_particles, has_error) ==
    Cardinality(next_particles) = 0

\* len(next_particles) == 0 or get_error_marker(links, particle) is not None
StopsFollowing(next_particles, has_error) ==
    Cardinality(next_particles) = 0 \/ has_error

\* Variant: the boundary time point itself counts as followed long enough.
FollowedLongEnoughInclusive(particle, last_followed_time_point) ==
    time_point_number(particle) >= last_followed_time_point

\* particle.time_point_number() > last_followed_time_point
FollowedLongEnough(particle, last_followed_time_point) ==
    time_point_number(particle) > last_followed_time_point

\* Variant: the time point of the starting particle is not subtracted.
TimePointsRemainingFromZero(particle, starting_particle) ==
    time_point_number(particle)

\* particle.time_point_number() - starting_particle.time_point_number()
TimePointsRemaining(particle, starting_particle) ==
    time_point_number(particle) - time_point_number(starting_particle)

\* Variant: a division is followed like a simple movement.
IsMovementOrDivision(next_particles) == Cardinality(next_particles) >= 1

\* len(next_particles) == 1
IsSimpleMovement(next_particles) == Cardinality(next_particles) = 1

\* Variant: the loop stays at the particle it is at.
_not_popped(next_particles, particle) == particle

\* particle = next_particles.pop()
_popped(next_particles, particle) == CHOOSE p \in next_particles : TRUE

\* The while loop of get_fate, one iteration per call.
RECURSIVE _follow(_, _, _, _, _, _)
_follow(g, markers, errors, starting_particle, last_followed_time_point, particle) ==
    LET next_particles == find_futures(g, particle) IN
    IF IsDeath(next_particles, get_track_end_marker(markers, particle))
    THEN \* Actual cell death
         CellFate("WILL_DIE", Some(TimePointsRemaining(particle, starting_particle)))
    ELSE IF StopsFollowing(next_particles, has_error_marker(errors, particle))
    THEN IF FollowedLongEnough(particle, last_followed_time_point)
         THEN CellFate("JUST_MOVING", None)
         ELSE CellFate("UNKNOWN", None)
    ELSE IF IsSimpleMovement(next_particles)
    THEN _follow(g, markers, errors, starting_particle, last_followed_time_point,
                 _popped(next_particles, particle))
    ELSE \* Found the next division
         CellFate("WILL_DIVIDE", Some(TimePointsRemaining(particle, starting_particle)))

get_fate(g, markers, errors, lookahead, particle) ==
    _follow(g, markers, errors, particle,
            time_point_number(particle) + lookahead, particle)

----------------------------------------------------------------------------
(* lineage_division_counter *)

\* LinkingTrack.find_all_descending_tracks: the track (if include_self) and
\* every track after it, depth first.
RECURSIVE find_all_descending_tracks(_, _, _)
RECURSIVE _descend_each(_, _)
find_all_descending_tracks(g, track, include_self) ==
    (IF include_self THEN <<track>> ELSE <<>>) \o
    _descend_each(g, Ordered(find_future_particles(g, find_last_position(track)), FALSE))

_descend_each(g, firsts) ==
    IF firsts = <<>> THEN <<>>
    ELSE find_all_descending_tracks(g, positions_from(g, Head(firsts)), TRUE)
         \o _descend_each(g, Tail(firsts))

\* track.min_time_point_number() > last_time_point_number
IsPastWindow(track, last_time_point_number) ==
    min_time_point_number(track) > last_time_point_number

\* Variant: any end marker, not only DEAD, explains the end of a track.
EndedUnexplainedOnlyUnmarked(g, markers, track, last_time_point_number) ==
    /\ get_next_tracks(g, track) = {}
    /\ get_track_end_marker(markers, find_last_position(track)) = "NONE"
    /\ max_time_point_number(track) < last_time_point_number

\* Variant: the end of the time window is not looked at.
EndedUnexplainedAnyTime(g, markers, track, last_time_point_number) ==
    /\ get_next_tracks(g, track) = {}
    /\ get_track_end_marker(markers, find_last_position(track)) # "DEAD"

\* not track.get_next_tracks()
\*   and get_track_end_marker(links, track.find_last_position()) != EndMarker.DEAD
\*   and track.max_time_point_number() < last_time_point_number
EndedUnexplained(g, markers, track, last_time_point_number) ==
    /\ get_next_tracks(g, track) = {}
    /\ get_track_end_marker(markers, find_last_position(track)) # "DEAD"
    /\ max_time_point_number(track) < last_time_point_number

\* Variant: a division counts wherever the track ends.
IsDivisionAnyTime(g, track, last_time_point_number) ==
    Cardinality(get_next_tracks(g, track)) > 1

\* Variant: only more than two next tracks count as a division.
IsDivisionOfThreeInWindow(g, track, last_time_point_number) ==
    /\ max_time_point_number(track) < last_time_point_number
    /\ Cardinality(get_next_tracks(g, track)) > 2

\* track.max_time_point_number() < last_time_point_number
\*   and len(track.get_next_tracks()) > 1
IsDivisionInWindow(g, track, last_time_point_number) ==
    /\ max_time_point_number(track) < last_time_point_number
    /\ Cardinality(get_next_tracks(g, track)) > 1

\* Variant: an unexplained end gives up in the other mode.
GivesUpWhenInaccurate(require_accurate) == ~require_accurate

\* Variant: an unexplained end gives up in either mode.
GivesUpAlways(require_accurate) == TRUE

\* if require_accurate: return None
GivesUp(require_accurate) == require_accurate

\* The for loop of get_division_count_in_lineage over the tracks still to
\* visit.
RECURSIVE _count_divisions(_, _, _, _, _, _)
_count_divisions(g, markers, tracks, last_time_point_number, require_accurate, division_count) ==
    IF tracks = <<>> THEN Some(division_count)
    ELSE LET track == Head(tracks) IN
         IF IsPastWindow(track, last_time_point_number)
         THEN _count_divisions(g, markers, Tail(tracks), last_time_point_number,
                               require_accurate, division_count)
         ELSE IF EndedUnexplained(g, markers, track, last_time_point_number)
         THEN IF GivesUp(require_accurate)
              THEN None
              ELSE _count_divisions(g, markers, Tail(tracks), last_time_point_number,
                                    require_accurate, division_count)
         ELSE IF IsDivisionInWindow(g, track, last_time_point_number)
         THEN _count_divisions(g, markers, Tail(tracks), last_time_point_number,
                               require_accurate, division_count + 1)
         ELSE _count_divisions(g, markers, Tail(tracks), last_time_point_number,
                               require_accurate, division_count)

get_division_count_in_lineage(g, markers, starting_track, last_time_point_number, require_accurate) ==
    _count_divisions(g, markers, find_all_descending_tracks(g, starting_track, TRUE),
                     last_time_point_number, require_accurate, 0)

----------------------------------------------------------------------------
(* Links: links and generic position data *)

\* Links.find_all_positions: the positions that take part in a link.
find_all_positions(g) == g.nodes

\* Links.find_all_links, as the sequence of (source, target) pairs.
RECURSIVE find_all_links(_)
find_all_links(g) ==
    IF g.edges = {} THEN <<>>
    ELSE LET first == CHOOSE e \in g.edges :
                          \A d \in g.edges : Rank(e[2]) <= Rank(d[2])
         IN <<first>> \o find_all_links([g EXCEPT !.edges = g.edges \ {first}])

\* Links.add_link
add_link(g, source, target) ==
    [nodes |-> g.nodes \cup {source, target},
     edges |-> g.edges \cup {<<source, target>>}]

\* Links.set_position_data: one value per position and data name.
set_position_data(data, position, data_name, value) ==
    {t \in data : ~(t[1] = position /\ t[2] = data_name)}
        \cup {<<position, data_name, value>>}

\* Links.find_all_data_of_position: the (data name, value) pairs.
find_all_data_of_position(data, position) ==
    {<<t[2], t[3]>> : t \in {u \in data : u[1] = position}}

\* Links.add_links: everything of the other links is added.
add_links(links, other) ==
    [graph |-> [nodes |-> links.graph.nodes \cup other.graph.nodes,
                edges |-> links.graph.edges \cup other.graph.edges],
     position_data |->
         {t \in links.position_data :
             \A u \in other.position_data : ~(u[1] = t[1] /\ u[2] = t[2])}
         \cup other.position_data]

\* Links(): no links, no position data.
NewLinks == [graph |-> EmptyGraph, position_data |-> {}]

\* What the links hold, to compare them with later.
Saved(g, data) == [nodes |-> g.nodes, edges |-> g.edges, position_data |-> data]

----------------------------------------------------------------------------
(* io: links in the D3.js node-link format *)

\* Default time window of _add_d3_data.
default_min_time_point == -100000
default_max_time_point == 100000

\* node = {"id": position}, then node[data_name] = data_value for all data of
\* the position: a dictionary, here a function on its keys.
_node_of(data, position) ==
    LET found == find_all_data_of_position(data, position)
        names == {e[1] : e \in found}
    IN [key \in {"id"} \cup names |->
           IF key \in names
           THEN (CHOOSE e \in found : e[1] = key)[2]
           ELSE position]

\* edge = {"source": source, "target": target}
_edge_of(link) == [source |-> link[1], target |-> link[2]]

_links_to_d3_data(g, data, positions) ==
    [directed |-> FALSE,
     multigraph |-> FALSE,
     nodes |-> [i \in 1..Len(positions) |-> _node_of(data, positions[i])],
     links |-> [i \in 1..Len(find_all_links(g)) |-> _edge_of(find_all_links(g)[i])]]

\* len(node.keys()) == 1
HasNoExtraData(node) == Cardinality(DOMAIN node) = 1

\* Variant: the key "id" is stored as position data too.
DataKeysWithId(node) == DOMAIN node

\* if data_key == "id": continue
DataKeys(node) == DOMAIN node \ {"id"}

\* The loop over node.items(): links.set_position_data(position, data_key,
\* data_value) for every key but "id".
_set_node_data(data, node) ==
    LET position == node["id"]
        keys == DataKeys(node)
    IN {t \in data : ~(t[1] = position /\ t[2] \in keys)}
           \cup {<<position, data_key, node[data_key]>> : data_key \in keys}

\* The loop "for node in data["nodes"]".
RECURSIVE _add_position_data(_, _)
_add_position_data(data, nodes) ==
    IF nodes = <<>> THEN data
    ELSE IF HasNoExtraData(Head(nodes))
    THEN \* No extra data found
         _add_position_data(data, Tail(nodes))
    ELSE _add_position_data(_set_node_data(data, Head(nodes)), Tail(nodes))

\* source.time_point_number() < min_time_point
\*   or target.time_point_number() < min_time_point
\*   or source.time_point_number() > max_time_point
\*   or target.time_point_number() > max_time_point
OutOfRange(source, target, min_time_point, max_time_point) ==
    \/ time_point_number(source) < min_time_point
    \/ time_point_number(target) < min_time_point
    \/ time_point_number(source) > max_time_point
    \/ time_point_number(target) > max_time_point

\* The loop "for link in data["links"]".
RECURSIVE _add_links(_, _, _, _)
_add_links(g, links, min_time_point, max_time_point) ==
    IF links = <<>> THEN g
    ELSE LET source == Head(links).source
             target == Head(links).target
         IN IF OutOfRange(source, target, min_time_point, max_time_point)
            THEN \* Ignore time points out of range
                 _add_links(g, Tail(links), min_time_point, max_time_point)
            ELSE _add_links(add_link(g, source, target), Tail(links),
                            min_time_point, max_time_point)

_add_d3_data(links, data, min_time_point, max_time_point) ==
    [graph |-> _add_links(links.graph, data.links, min_time_point, max_time_point),
     position_data |-> _add_position_data(links.position_data, data.nodes)]

\* links = Links(); _add_d3_data(links, link_data, min_time_point,
\* max_time_point); experiment.links.add_links(links)
_parse_links_format(experiment_links, data, min_time_point, max_time_point) ==
    add_links(experiment_links,
              _add_d3_data(NewLinks, data, min_time_point, max_time_point))

\* min_time_point <= time point <= max_time_point
InWindow(position, min_time_point, max_time_point) ==
    /\ min_time_point <= time_point_number(position)
    /\ time_point_number(position) <= max_time_point

\* load_links_from_json, from the decoded content of the file on.
load_links_from_json(data, min_time_point, max_time_point) ==
    LET nodes == SelectSeq(data.nodes,
                     LAMBDA entry : InWindow(entry["id"], min_time_point, max_time_point))
        links == SelectSeq(data.links,
                     LAMBDA entry :
                         /\ InWindow(entry.source, min_time_point, max_time_point)
                         /\ InWindow(entry.target, min_time_point, max_time_point))
    IN _add_d3_data(NewLinks, [data EXCEPT !.nodes = nodes, !.links = links],
                    default_min_time_point, default_max_time_point)

----------------------------------------------------------------------------
(* shape: particle shapes and their serialization *)

\* A call either returns a value or raises an error.
Returned(value) == [raised |-> "none", value |-> value]
Raised(error) == [raised |-> error, value |-> <<>>]

UnknownShape == [variant |-> "unknown"]

\* EllipseShape.__init__
EllipseShape(ellipse_dx, ellipse_dy, ellipse_width, ellipse_height, ellipse_angle, original_perimeter, original_area, eccentric) ==
    [variant |-> "ellipse",
     ellipse_dx |-> ellipse_dx,
     ellipse_dy |-> ellipse_dy,
     ellipse_width |-> ellipse_width,
     ellipse_height |-> ellipse_height,
     ellipse_angle |-> ellipse_angle,
     original_perimeter |-> original_perimeter,
     original_area |-> original_area,
     eccentric |-> eccentric]

\* Gaussian(*parameters): a Gaussian is its parameters, in the order of the
\* constructor; Gaussian.to_list gives them back in that order.
Gaussian(parameters) == parameters
Gaussian_to_list(gaussian) == gaussian

\* GaussianShape.__init__
GaussianShape(gaussian) == [variant |-> "gaussian", gaussian |-> gaussian]

\* bool(...) of a boolean
bool(value) == value = TRUE

\* UnknownShape.to_list
UnknownShape_to_list(shape) == <<>>

\* Variant: the eccentric flag is not written.
EllipseShape_to_list_without_eccentric(shape) ==
    <<"ellipse", shape.ellipse_dx, shape.ellipse_dy, shape.ellipse_width,
      shape.ellipse_height, shape.ellipse_angle, shape.original_perimeter,
      shape.original_area>>

\* EllipseShape.to_list
EllipseShape_to_list(shape) ==
    <<"ellipse", shape.ellipse_dx, shape.ellipse_dy, shape.ellipse_width,
      shape.ellipse_height, shape.ellipse_angle, shape.original_perimeter,
      shape.original_area, bool(shape.eccentric)>>

\* GaussianShape.to_list
GaussianShape_to_list(shape) == <<"gaussian">> \o Gaussian_to_list(shape.gaussian)

\* shape.to_list(), by the class of the shape.
to_list(shape) ==
    CASE shape.variant = "unknown" -> UnknownShape_to_list(shape)
      [] shape.variant = "ellipse" -> EllipseShape_to_list(shape)
      [] shape.variant = "gaussian" -> GaussianShape_to_list(shape)

\* EllipseShape(*list[1:]): seven arguments, or eight with eccentric.
_ellipse_from(arguments) ==
    IF Len(arguments) = 8
    THEN Returned(EllipseShape(arguments[1], arguments[2], arguments[3], arguments[4],
                               arguments[5], arguments[6], arguments[7], arguments[8]))
    ELSE IF Len(arguments) = 7
    THEN Returned(EllipseShape(arguments[1], arguments[2], arguments[3], arguments[4],
                               arguments[5], arguments[6], arguments[7], FALSE))
    ELSE Raised("TypeError")

\* GaussianShape(Gaussian(*list[1:]))
_gaussian_from(arguments) ==
    IF Len(arguments) = GaussianParameters
    THEN Returned(GaussianShape(Gaussian(arguments)))
    ELSE Raised("TypeError")

\* Variant: a list with an unknown tag gives an unknown shape.
_unknown_for_other_tag(list) == Returned(UnknownShape)

\* raise ValueError("Cannot deserialize " + str(list))
_cannot_deserialize(list) == Raised("ValueError")

from_list(list) ==
    IF Len(list) = 0
    THEN Returned(UnknownShape)
    ELSE LET type == list[1] IN
         IF type = "ellipse"
         THEN _ellipse_from(Tail(list))
         ELSE IF type = "gaussian"
         THEN _gaussian_from(Tail(list))
         ELSE _cannot_deserialize(list)

is_unknown(shape) == shape.variant = "unknown"

\* raw_area(): not implemented by GaussianShape.
raw_area(shape) ==
    CASE shape.variant = "unknown" -> Returned(0)
      [] shape.variant = "ellipse" -> Returned(shape.original_area)
      [] shape.variant = "gaussian" -> Raised("NotImplementedError")

\* fitted_area(): math.pi * width / 2 * height / 2, here in units of pi / 4.
fitted_area(shape) ==
    CASE shape.variant = "unknown" -> Returned(0)
      [] shape.variant = "ellipse" ->
             Returned(shape.ellipse_width * shape.ellipse_height)
      [] shape.variant = "gaussian" -> Raised("NotImplementedError")

\* perimeter(): the original perimeter, or when that is None the value of the
\* approximation formula, which is determined by the width and the height.
perimeter(shape) ==
    CASE shape.variant = "unknown" -> Returned(Some(0))
      [] shape.variant = "ellipse" ->
             IF shape.original_perimeter = None
             THEN Returned(<<shape.ellipse_width, shape.ellipse_height>>)
             ELSE Returned(shape.original_perimeter)
      [] shape.variant = "gaussian" -> Raised("NotImplementedError")

----------------------------------------------------------------------------
(* plugin_lineage_tree: the tracks drawn as errored *)

\* linking_markers.find_errored_positions
find_errored_positions(errors) == errors

\* Variant: every track after an errored track is added, at any depth.
_all_tracks_after(g, track) ==
    {descending \in find_all_tracks(g) :
        \E i \in 1..Len(find_all_descending_tracks(g, track, FALSE)) :
            find_all_descending_tracks(g, track, FALSE)[i] = descending}

\* for next_track in track.get_next_tracks(): tracks_with_errors.add(next_track)
_next_tracks_to_add(g, track) == get_next_tracks(g, track)

\* The body of the loop over the errored positions: what one position adds.
_tracks_of_errored_position(g, position) ==
    IF has_track(g, position)
    THEN LET track == get_track(g, position)
         IN {track} \cup _next_tracks_to_add(g, track)
    ELSE {}

_find_tracks_with_errors(g, errors) ==
    UNION {_tracks_of_errored_position(g, position) :
               position \in find_errored_positions(errors)}

----------------------------------------------------------------------------
(* lineage_markers and plugin_lineage_tree: the colors of the lineages *)

\* Color.black() and Color.from_rgb(number)
Color_black == [rgb |-> 0]
Color_from_rgb(color_number) == [rgb |-> color_number]

\* Links.get_lineage_data: the data stored for the lineage under the first
\* position of the track, None when there is none.
get_lineage_data(data, track, data_name) ==
    LET found == {t \in data : t[1] = track[1] /\ t[2] = data_name}
    IN IF found = {} THEN None ELSE Some((CHOOSE t \in found : TRUE)[3])

\* lineage_markers.get_color
get_color(data, track) ==
    LET color_number == get_lineage_data(data, track, "color")
    IN IF color_number = None
       THEN Color_black
       ELSE Color_from_rgb(color_number[1])

\* The next tracks of a track, in the order they are iterated in.
_next_tracks_in_order(g, track) ==
    LET firsts == Ordered(find_future_particles(g, find_last_position(track)), FALSE)
    IN [i \in 1..Len(firsts) |-> positions_from(g, firsts[i])]

\* self._track_to_color[linking_track] = color, then the same for every next
\* track.
RECURSIVE _give_lineage_color(_, _, _, _)
RECURSIVE _give_each_lineage_color(_, _, _, _)
_give_lineage_color(map, g, linking_track, color) ==
    _give_each_lineage_color((linking_track :> color) @@ map, g,
                             _next_tracks_in_order(g, linking_track), color)

_give_each_lineage_color(map, g, next_tracks, color) ==
    IF next_tracks = <<>> THEN map
    ELSE _give_each_lineage_color(_give_lineage_color(map, g, Head(next_tracks), color),
                                  g, Tail(next_tracks), color)

\* Variant: the entries of the last call stay in the map.
_kept(map) == map

\* self._track_to_color.clear()
_cleared(map) == <<>>

\* len(next_tracks) == 0
HasNoDivisions(next_tracks) == Cardinality(next_tracks) = 0

\* The loop over links.find_starting_tracks(), over the first positions of the
\* starting tracks still to visit.
RECURSIVE _color_starting_tracks(_, _, _, _)
_color_starting_tracks(map, g, data, firsts) ==
    IF firsts = <<>> THEN map
    ELSE LET track == positions_from(g, Head(firsts))
             next_tracks == get_next_tracks(g, track)
         IN IF HasNoDivisions(next_tracks)
            THEN \* No colors for tracks without divisions
                 _color_starting_tracks(map, g, data, Tail(firsts))
            ELSE _color_starting_tracks(
                     _give_lineage_color(map, g, track, get_color(data, track)),
                     g, data, Tail(firsts))

_calculate_track_colors(map, g, data) ==
    _color_starting_tracks(_cleared(map), g, data,
        Ordered({track[1] : track \in find_starting_tracks(g)}, FALSE))

----------------------------------------------------------------------------
(* io: loading a data file *)

FILE_EXTENSION == "aut"

\* The time window load_data_file uses when none is given.
load_min_time_point == 0
load_max_time_point == 5000

\* The part of the file name after the last dot, in lower case.
Extension(file_name) ==
    CASE file_name \in {"links.aut"} -> "aut"
      [] file_name \in {"links.json", "missing.json"} -> "json"
      [] OTHER -> "dat"

\* The errors that are instances of the given class: json.JSONDecodeError is
\* a subclass of ValueError, FileNotFoundError one of OSError.
IsInstance(error, class) ==
    \/ error = class
    \/ error = "JSONDecodeError" /\ class = "ValueError"
    \/ error = "FileNotFoundError" /\ class = "OSError"

\* What is in a file: text that is no JSON, a general data file with a
\* version and perhaps links, a linking result (the bare node-link data), or
\* a file of positions.
NoJson == [kind |-> "text"]
GeneralFile(version, links) == [kind |-> "general", version |-> version, links |-> links]
LinkingFile(links) == [kind |-> "linking", links |-> links]
PositionsFile == [kind |-> "positions"]

\* An Experiment(), as far as its links go.
NewExperiment == NewLinks

\* _load_json_data_file: the links of the experiment afterwards and what the
\* call gave.
_load_json_data_file(experiment, files, file_name, min_time_point, max_time_point) ==
    IF file_name \notin DOMAIN files
    THEN \* open(file_name)
         [experiment |-> experiment, outcome |-> Raised("FileNotFoundError")]
    ELSE LET data == files[file_name] IN
         IF data.kind = "text"
         THEN \* json.load(handle, ...)
              [experiment |-> experiment, outcome |-> Raised("JSONDecodeError")]
         ELSE IF data.kind = "linking"
         THEN [experiment |-> _parse_links_format(experiment, data.links,
                                                  min_time_point, max_time_point),
               outcome |-> Returned(None)]
         ELSE IF data.kind = "positions"
         THEN [experiment |-> experiment, outcome |-> Returned(None)]
         ELSE IF data.version # "v1"
         THEN [experiment |-> experiment, outcome |-> Raised("ValueError")]
         ELSE IF data.links # None
         THEN [experiment |-> _parse_links_format(experiment, data.links[1],
                                                  min_time_point, max_time_point),
               outcome |-> Returned(None)]
         ELSE [experiment |-> experiment, outcome |-> Returned(None)]

\* load_data_file(file_name), without an experiment: a new one is made.
load_data_file(files, file_name) ==
    IF Extension(file_name) \in {FILE_EXTENSION, "json"}
    THEN _load_json_data_file(NewExperiment, files, file_name,
                              load_min_time_point, load_max_time_point)
    ELSE [experiment |-> NewExperiment, outcome |-> Raised("ValueError")]

\* load_linking_result: the links of the experiment afterwards and what the
\* call gave.
load_linking_result(experiment, files, file_name) ==
    LET loaded == load_data_file(files, file_name)
        new_experiment == loaded.experiment
    IN IF loaded.outcome.raised # "none"
       THEN [experiment |-> experiment, outcome |-> loaded.outcome]
       ELSE IF ~has_links(new_experiment.graph)
       THEN [experiment |-> experiment, outcome |-> Raised("ValueError")]
       ELSE [experiment |-> add_links(experiment, new_experiment),
             outcome |-> Returned(None)]

----------------------------------------------------------------------------
(* warnings_visualizer: the list of errors and warnings *)

\* data[name] of a node of the graph: Some(value), Some(None) for a stored
\* None, and None when the node has no such attribute.
NodeAttribute(data, node, name) ==
    LET found == {t \in data : t[1] = node /\ t[2] = name}
    IN IF found = {} THEN None ELSE Some((CHOOSE t \in found : TRUE)[3])

\* "error" in data and data["error"] is not None (and the same for "warning")
IsSet(data, node, name) ==
    NodeAttribute(data, node, name) \notin {None, Some(None)}

\* _get_problematic_particles, for the nodes in the order of the graph.
RECURSIVE _get_problematic_particles(_, _)
_get_problematic_particles(data, nodes) ==
    IF nodes = <<>> THEN <<>>
    ELSE (IF IsSet(data, Head(nodes), "error") THEN <<Head(nodes)>>
          ELSE IF IsSet(data, Head(nodes), "warning") THEN <<Head(nodes)>>
          ELSE <<>>)
         \o _get_problematic_particles(data, Tail(nodes))

\* graph.add_node(particle, error=None, warning=None): the two attributes
\* of the node are set to None.
add_node_without_problems(data, node) ==
    set_position_data(set_position_data(data, node, "error", None), node, "warning", None)

\* list.remove(value): the list without the first element equal to value.
RECURSIVE remove(_, _)
remove(list, value) ==
    IF list = <<>> THEN <<>>
    ELSE IF Head(list) = value THEN Tail(list)
    ELSE <<Head(list)>> \o remove(Tail(list), value)

\* self._current_particle_index < 0
\*   or self._current_particle_index >= len(self._particle_list)
IndexOutOfRange(index, list) == index < 0 \/ index >= Len(list)

\* Variant: the index stays where it is when the last particle was deleted.
DeletedLastNever(index, list) == FALSE

\* if self._current_particle_index >= len(self._particle_list)
DeletedLast(index, list) == index >= Len(list)

\* WarningsVisualizer._delete_warning: the data of the nodes, the list and
\* the index afterwards.
_delete_warning(data, list, index) ==
    IF IndexOutOfRange(index, list)
    THEN [data |-> data, list |-> list, index |-> index]
    ELSE LET deleted == list[index + 1]
             shorter == remove(list, deleted)
         IN [data |-> add_node_without_problems(data, deleted),
             list |-> shorter,
             index |-> IF DeletedLast(index, shorter)
                       THEN index - 1  \* Deleted last particle, go back to previous
                       ELSE index]

----------------------------------------------------------------------------
(* visualizer: the key handler of a Visualizer *)

\* The keys of one character and the keys with a longer name.
CharacterKeys == {"/", "1", "a"}
NamedKeys == {"enter", "escape", "backspace", "shift"}

\* len(event.key)
len(key) == IF key \in CharacterKeys THEN 1 ELSE 2

\* event.key == '/', with no command pending
StartsCommand(key) == key = "/"

\* Variant: a command of no characters is passed on as well.
IsNonEmptyAlways(text) == TRUE

\* len(text) > 0
IsNonEmpty(text) == Len(text) > 0

\* self._pending_command_text[:-1]
WithoutLast(text) == SubSeq(text, 1, Len(text) - 1)

\* Visualizer._on_key_press_raw: the two fields afterwards and the calls of
\* _on_key_press and _on_command it made. A text is the sequence of its
\* characters; the pending text is None or Some(text).
_on_key_press_raw(pending, enabled, key) ==
    IF ~enabled
    THEN IF key = "1"
         THEN [pending |-> pending, enabled |-> TRUE, made |-> <<>>]
         ELSE [pending |-> pending, enabled |-> enabled, made |-> <<>>]
    ELSE IF pending = None
    THEN IF StartsCommand(key)
         THEN \* Staring command mode
              [pending |-> Some(<<>>), enabled |-> enabled, made |-> <<>>]
         ELSE [pending |-> pending, enabled |-> enabled,
               made |-> <<<<"_on_key_press", <<key>>>>>>]
    ELSE IF key = "enter"
    THEN \* Finish typing command
         LET text == pending[1]
         IN [pending |-> None, enabled |-> enabled,
             made |-> IF IsNonEmpty(text) THEN <<<<"_on_command", text>>>> ELSE <<>>]
    ELSE IF key = "escape"
    THEN \* Exit typing command
         [pending |-> None, enabled |-> enabled, made |-> <<>>]
    ELSE IF key = "backspace"
    THEN [pending |-> IF Len(pending[1]) > 0 THEN Some(WithoutLast(pending[1]))
                      ELSE pending,
          enabled |-> enabled, made |-> <<>>]
    ELSE IF len(key) > 1
    THEN \* Pressing "shift", "control", "left", etc.
         [pending |-> pending, enabled |-> enabled, made |-> <<>>]
    ELSE [pending |-> Some(Append(pending[1], key)), enabled |-> enabled, made |-> <<>>]

\* Visualizer.__init__, lines 29-30: the key and the mouse handler of the new
\* visualizer are connected. connected maps every visualizer that was made to
\* whether its two handlers are connected.
Visualizer(connected, self) == (self :> TRUE) @@ connected

\* Visualizer.detach: both handlers are disconnected.
detach(connected, self) == [connected EXCEPT ![self] = FALSE]

\* activate(visualizer): the active visualizer and the connections afterwards,
\* and the calls made in their order.
activate(active, connected, visualizer) ==
    LET detached == IF active # None
                    THEN \* Unregister old event handlers
                         detach(connected, active[1])
                    ELSE connected
    IN [active |-> Some(visualizer),
        connected |-> detached,
        made |-> (IF active # None THEN <<<<"detach", active[1]>>>> ELSE <<>>)
                 \o <<<<"draw_view", visualizer>>>>]

----------------------------------------------------------------------------
(* io: the files that a save touches *)

\* A file name is the sequence of its parts; files maps the names of the
\* files that exist to their contents. The contents are the data that were
\* written and whether all of them were written.
json_file_name == <<"data.json">>

\* json_file_name + ".OLD"
json_file_name_old == json_file_name \o <<".OLD">>

Complete(data) == [data |-> data, complete |-> TRUE]
Partial(data) == [data |-> data, complete |-> FALSE]

\* os.path.exists
exists(files, file_name) == file_name \in DOMAIN files

\* os.remove
os_remove(files, file_name) == [f \in DOMAIN files \ {file_name} |-> files[f]]

\* os.rename to a name that is free, and on POSIX to any name: the file that
\* had the new name is replaced.
os_rename(files, old_name, new_name) == (new_name :> files[old_name]) @@ os_remove(os_remove(files, old_name), new_name)

\* open(file_name, 'w'): the file is made, or emptied when it exists.
open_w(files, file_name, data) == (file_name :> Partial(data)) @@ os_remove(files, file_name)

\* json.dump(data, handle), and the handle is closed as the with block ends.
json_dump(files, file_name, data) == [files EXCEPT ![file_name] = Complete(data)]

----------------------------------------------------------------------------
(* mask: the bounds and the array of a Mask *)

BoundingBox(min_x, min_y, min_z, max_x, max_y, max_z) ==
    [min_x |-> min_x, min_y |-> min_y, min_z |-> min_z,
     max_x |-> max_x, max_y |-> max_y, max_z |-> max_z]

max(a, b) == IF a >= b THEN a ELSE b
min(a, b) == IF a <= b THEN a ELSE b

\* int(value), of a whole number
int(value) == value

\* Mask.__init__; the class attribute _mask is None.
Mask(box) ==
    [_offset_x |-> box.min_x, _offset_y |-> box.min_y, _offset_z |-> box.min_z,
     _max_x |-> box.max_x, _max_y |-> box.max_y, _max_z |-> box.max_z,
     _mask |-> None]

\* if self._mask is not None: raise ValueError(...)
CannotResize(self) == self._mask # None

\* Mask.set_bounds_exact: the mask afterwards and what the call gave.
set_bounds_exact(self, min_x, min_y, min_z, max_x, max_y, max_z) ==
    IF CannotResize(self)
    THEN [self |-> self, outcome |-> Raised("ValueError")]
    ELSE [self |-> [self EXCEPT !._offset_x = max(self._offset_x, int(min_x)),
                                !._offset_y = max(self._offset_y, int(min_y)),
                                !._offset_z = max(self._offset_z, int(min_z)),
                                !._max_x = min(self._max_x, int(max_x)),
                                !._max_y = min(self._max_y, int(max_y)),
                                !._max_z = min(self._max_z, int(max_z))],
          outcome |-> Returned(None)]

\* Mask.set_bounds
set_bounds(self, box) ==
    set_bounds_exact(self, box.min_x, box.min_y, box.min_z, box.max_x, box.max_y, box.max_z)

\* Mask.set_bounds_around
set_bounds_around(self, x, y, z, padding_x, padding_y, padding_z) ==
    set_bounds_exact(self, x - padding_x, y - padding_y, z - padding_z,
                     x + padding_x + 1, y + padding_y + 1, z + padding_z + 1)

\* numpy.zeros((size_z, size_y, size_x)): the array, by its shape
zeros(size_z, size_y, size_x) == <<size_z, size_y, size_x>>

\* Mask.get_mask_array
get_mask_array(self) ==
    IF self._mask = None
    THEN LET size_x == self._max_x - self._offset_x
             size_y == self._max_y - self._offset_y
             size_z == self._max_z - self._offset_z
         IN IF size_x <= 0 \/ size_y <= 0 \/ size_z <= 0
            THEN [self |-> self, outcome |-> Raised("OutsideImageError")]
            ELSE LET created == zeros(size_z, size_y, size_x)
                 IN [self |-> [self EXCEPT !._mask = Some(created)],
                     outcome |-> Returned(created)]
    ELSE [self |-> self, outcome |-> Returned(self._mask[1])]

----------------------------------------------------------------------------
(* Inputs *)

NoMarkers(T) == [p \in PositionsUpTo(T) |-> "NONE"]

\* The graph in which every position p with parent[p] # "none" is linked from
\* the position of lane parent[p] in the time point before it.
GraphOf(parent) ==
    LET es == {<<<<parent[p], p[2] - 1>>, p>> :
                   p \in {q \in DOMAIN parent : parent[q] # "none"}}
    IN [nodes |-> {e[1] : e \in es} \cup {e[2] : e \in es}, edges |-> es]

\* Every links graph over the time points 0..T in which each position has at
\* most one parent, in the time point before it.
Forests(T) ==
    {GraphOf(parent) :
        parent \in [Lanes \X (1..T) -> Lanes \cup {"none"}]}

\* A single lineage: every position of the graph descends from the position
\* of lane "a" in the first time point.
RECURSIVE DescendsFromFirst(_, _)
DescendsFromFirst(g, p) ==
    IF find_past_particles(g, p) = {} THEN p = <<"a", first_time_point_number>>
    ELSE DescendsFromFirst(g, CHOOSE q \in find_past_particles(g, p) : TRUE)

\* Lanes only name the positions of a time point, so of the graphs that differ
\* in the names alone the one that uses lane "a" first is taken.
Lineages(T) ==
    {g \in Forests(T) :
        /\ \A p \in g.nodes : DescendsFromFirst(g, p)
        /\ \A p \in g.nodes : p[1] = "b" => <<"a", p[2]>> \in g.nodes
        /\ \A t \in 1..T : <<<<"b", t - 1>>, <<"a", t>>>> \in g.edges
                               => <<<<"b", t - 1>>, <<"b", t>>>> \in g.edges}

\* At most one position of the graph carries an end marker.
EndMarkerChoices(T, g) ==
    {NoMarkers(T)} \cup
    {[NoMarkers(T) EXCEPT ![p] = m] : p \in g.nodes, m \in EndMarkers}

\* At most one position of the graph carries an error marker.
ErrorMarkerChoices(g) == {{}} \cup {{p} : p \in g.nodes}

\* The positions without next positions.
Leaves(g) == {p \in g.nodes : find_future_particles(g, p) = {}}

\* Every position without next positions has an end marker or none; the other
\* positions have none.
TrackEndMarkerChoices(T, g) ==
    {[p \in PositionsUpTo(T) |-> IF p \in Leaves(g) THEN m[p] ELSE "NONE"] :
        m \in [Leaves(g) -> EndMarkers \cup {"NONE"}]}

\* Single lineages over three lanes, so that a position can have three next
\* positions: every linked position has its parent in the graph, down to the
\* position of lane "a" in the first time point. Of the graphs that differ in
\* the lane names alone one is taken: the lanes of a time point are used in
\* order, and the positions of a time point are in the order of their parents.
WideLineages(T) ==
    {GraphOf(parent) :
        parent \in
            {f \in [WideLanes \X (1..T) -> WideLanes \cup {"none"}] :
                \A t \in 1..T :
                    /\ f[<<"b", t>>] # "none" => f[<<"a", t>>] # "none"
                    /\ f[<<"c", t>>] # "none" => f[<<"b", t>>] # "none"
                    /\ f[<<"b", t>>] # "none" =>
                           LaneIndex(f[<<"a", t>>]) <= LaneIndex(f[<<"b", t>>])
                    /\ f[<<"c", t>>] # "none" =>
                           LaneIndex(f[<<"b", t>>]) <= LaneIndex(f[<<"c", t>>])
                    /\ \A lane \in WideLanes :
                           f[<<lane, t>>] # "none" =>
                               IF t = 1 THEN f[<<lane, t>>] = "a"
                               ELSE f[<<f[<<lane, t>>], t - 1>>] # "none"}}

\* Over three lanes: the positions without next positions all have the same
\* end marker, or all have none.
WideTrackEndMarkerChoices(T, g) ==
    {[p \in WidePositionsUpTo(T) |-> IF p \in Leaves(g) THEN m ELSE "NONE"] :
        m \in EndMarkers \cup {"NONE"}}

----------------------------------------------------------------------------
(* Spur removal as a state machine *)

InitSpurs ==
    /\ graph \in Forests(MaxTime)
    /\ end_markers = NoMarkers(MaxTime)
    /\ error_markers = {}
    /\ division_lookahead_time_points = 0
    /\ op = "none"
    /\ args = <<>>
    /\ result = <<>>
    /\ before = EmptyGraph
    /\ runs = 0
    /\ position_data = {}
    /\ link_data = NoLinkData
    /\ track_to_color = <<>>
    /\ ViewIdle

\* postprocess: _remove_spurs(experiment). The markers of a removed particle
\* go with it.
RemoveSpurs ==
    /\ runs < MaxRuns
    /\ \E reversed \in BOOLEAN :
          graph' = _remove_spurs(graph, reversed)
    /\ end_markers' = [p \in DOMAIN end_markers |->
                          IF p \in graph'.nodes \/ p \notin graph.nodes
                          THEN end_markers[p] ELSE "NONE"]
    /\ error_markers' = error_markers \ (graph.nodes \ graph'.nodes)
    /\ op' = "remove_spurs"
    /\ args' = <<>>
    /\ result' = <<>>
    /\ before' = graph
    /\ runs' = runs + 1
    /\ UNCHANGED view_vars
    /\ UNCHANGED <<track_to_color, division_lookahead_time_points, position_data, link_data>>

NextSpurs == RemoveSpurs

SpecSpurs == InitSpurs /\ [][NextSpurs]_vars

----------------------------------------------------------------------------
(* Cell fates as a state machine *)

InitFate ==
    /\ graph \in Lineages(MaxDepth)
    /\ end_markers \in EndMarkerChoices(MaxDepth, graph)
    /\ error_markers \in ErrorMarkerChoices(graph)
    /\ division_lookahead_time_points \in 0..MaxLookahead
    /\ op = "none"
    /\ args = <<>>
    /\ result = <<>>
    /\ before = EmptyGraph
    /\ runs = 0
    /\ position_data = {}
    /\ link_data = NoLinkData
    /\ track_to_color = <<>>
    /\ ViewIdle

\* get_fate(experiment, particle), for any particle of the experiment.
GetFate ==
    /\ op = "none"
    /\ \E particle \in PositionsUpTo(MaxDepth) :
          /\ args' = <<particle>>
          /\ result' = get_fate(graph, end_markers, error_markers,
                                division_lookahead_time_points, particle)
    /\ op' = "get_fate"
    /\ before' = graph
    /\ UNCHANGED view_vars
    /\ UNCHANGED <<track_to_color, graph, end_markers, error_markers,
                   division_lookahead_time_points, runs, position_data, link_data>>

NextFate == GetFate

SpecFate == InitFate /\ [][NextFate]_vars

----------------------------------------------------------------------------
(* The loop of get_fate, one iteration per step *)

\* The lookahead decides between two answers only, not how far the loop
\* goes: one value is taken.
InitFateWalk ==
    /\ graph \in Lineages(MaxDepth)
    /\ end_markers \in EndMarkerChoices(MaxDepth, graph)
    /\ error_markers \in ErrorMarkerChoices(graph)
    /\ division_lookahead_time_points = MaxLookahead
    /\ op = "none"
    /\ args = <<>>
    /\ result = <<>>
    /\ before = EmptyGraph
    /\ runs = 0
    /\ position_data = {}
    /\ link_data = NoLinkData
    /\ track_to_color = <<>>
    /\ ViewIdle

\* get_fate(experiment, particle) is called: the statements before the loop.
StartGetFate ==
    /\ pc = "idle"
    /\ op = "none"
    /\ \E starting_particle \in graph.nodes :
          /\ args' = <<starting_particle>>
          /\ current_particle' = starting_particle
    /\ visited' = <<>>
    /\ pc' = "while"
    /\ UNCHANGED <<mask, particle_list, current_particle_index, pending_command_text,
                   controls_enabled, _visualizer, handlers, calls, disk>>
    /\ UNCHANGED <<graph, end_markers, error_markers, division_lookahead_time_points,
                   op, result, before, runs, position_data, link_data, track_to_color>>

\* One iteration of the while loop: it returns a CellFate or goes to the only
\* next particle.
GetFateIteration ==
    /\ pc = "while"
    /\ visited' = Append(visited, current_particle)
    /\ LET next_particles == find_futures(graph, current_particle)
           starting_particle == args[1]
           last_followed_time_point ==
               time_point_number(starting_particle) + division_lookahead_time_points
           returns(fate) ==
               /\ result' = fate
               /\ op' = "get_fate"
               /\ pc' = "done"
               /\ UNCHANGED current_particle
       IN IF IsDeath(next_particles, get_track_end_marker(end_markers, current_particle))
          THEN returns(CellFate("WILL_DIE",
                                Some(TimePointsRemaining(current_particle, starting_particle))))
          ELSE IF StopsFollowing(next_particles,
                                 has_error_marker(error_markers, current_particle))
          THEN IF FollowedLongEnough(current_particle, last_followed_time_point)
               THEN returns(CellFate("JUST_MOVING", None))
               ELSE returns(CellFate("UNKNOWN", None))
          ELSE IF IsSimpleMovement(next_particles)
          THEN /\ current_particle' = _popped(next_particles, current_particle)
               /\ UNCHANGED <<result, op, pc>>
          ELSE returns(CellFate("WILL_DIVIDE",
                                Some(TimePointsRemaining(current_particle, starting_particle))))
    /\ UNCHANGED <<mask, particle_list, current_particle_index, pending_command_text,
                   controls_enabled, _visualizer, handlers, calls, disk>>
    /\ UNCHANGED <<graph, end_markers, error_markers, division_lookahead_time_points,
                   args, before, runs, position_data, link_data, track_to_color>>

NextFateWalk == StartGetFate \/ GetFateIteration

\* A call that was started keeps running: the loop has no blocking statement.
SpecFateWalk == InitFateWalk /\ [][NextFateWalk]_vars /\ WF_vars(GetFateIteration)

----------------------------------------------------------------------------
(* Loading a linking result as a state machine *)

\* The links in a file: any links graph, all of its positions as nodes, and
\* perhaps an end marker stored for one of them.
FileLinks ==
    {_links_to_d3_data(g, data, Ordered(g.nodes \cup {<<"a", 0>>}, FALSE)) :
        g \in Forests(MaxLoadTime),
        data \in {{}, {<<<<"a", 0>>, "ending", "dead">>}}}

FileContents ==
    {NoJson, PositionsFile}
    \cup {LinkingFile(links) : links \in FileLinks}
    \cup {GeneralFile(version, None) : version \in {"v1", "v2"}}
    \cup {GeneralFile(version, Some(links)) : version \in {"v1", "v2"}, links \in FileLinks}

\* The file names a linking result is asked from; no file has the last one.
FileNames == {"links.aut", "links.json", "links.dat", "missing.json"}

InitLoad ==
    /\ graph \in Forests(MaxLoadTime)
    /\ position_data \in {{}, {<<<<"a", 0>>, "ending", "shed">>}}
    /\ \E content \in FileContents :
          disk = [file_name \in FileNames \ {"missing.json"} |-> content]
    /\ current_particle = <<>>
    /\ visited = <<>>
    /\ mask = <<>>
    /\ particle_list = <<>>
    /\ current_particle_index = -1
    /\ pending_command_text = <<>>
    /\ controls_enabled = TRUE
    /\ _visualizer = <<>>
    /\ handlers = <<>>
    /\ calls = <<>>
    /\ pc = "idle"
    /\ end_markers = <<>>
    /\ error_markers = {}
    /\ division_lookahead_time_points = 0
    /\ op = "none"
    /\ args = <<>>
    /\ result = <<>>
    /\ before = EmptyGraph
    /\ runs = 0
    /\ link_data = NoLinkData
    /\ track_to_color = <<>>

\* load_linking_result(experiment, json_file_name)
LoadLinkingResult ==
    /\ op = "none"
    /\ \E file_name \in FileNames :
          LET call == load_linking_result(
                          [graph |-> graph, position_data |-> position_data],
                          disk, file_name)
          IN /\ graph' = call.experiment.graph
             /\ position_data' = call.experiment.position_data
             /\ result' = call.outcome
             /\ args' = <<file_name>>
    /\ op' = "load_linking_result"
    /\ before' = Saved(graph, position_data)
    /\ UNCHANGED view_vars
    /\ UNCHANGED <<end_markers, error_markers, division_lookahead_time_points, runs,
                   link_data, track_to_color>>

NextLoad == LoadLinkingResult

SpecLoad == InitLoad /\ [][NextLoad]_vars

----------------------------------------------------------------------------
(* The warnings list as a state machine *)

\* What a node can hold: nothing, an error, a warning, both, or a None left
\* by an earlier deletion.
ProblemChoices ==
    {{}, {<<"error", Some("e")>>}, {<<"warning", Some("w")>>},
     {<<"error", Some("e")>>, <<"warning", Some("w")>>},
     {<<"error", None>>, <<"warning", Some("w")>>}}

ProblemData(T) ==
    {UNION {{<<position, attribute[1], attribute[2]>> : attribute \in choice[position]} :
               position \in PositionsUpTo(T)} :
        choice \in [PositionsUpTo(T) -> ProblemChoices]}

\* WarningsVisualizer(experiment, figure, start_particle): the list of the
\* particles with a problem, and the index of the chosen one, -1 for none.
InitWarnings ==
    /\ position_data \in ProblemData(MaxWarningTime)
    /\ \E reversed \in BOOLEAN :
          particle_list = _get_problematic_particles(
                              position_data,
                              Ordered(PositionsUpTo(MaxWarningTime), reversed))
    /\ current_particle_index \in -1..(Len(particle_list) - 1)
    /\ current_particle = <<>>
    /\ visited = <<>>
    /\ mask = <<>>
    /\ pending_command_text = <<>>
    /\ controls_enabled = TRUE
    /\ _visualizer = <<>>
    /\ handlers = <<>>
    /\ calls = <<>>
    /\ disk = <<>>
    /\ pc = "idle"
    /\ graph = EmptyGraph
    /\ end_markers = <<>>
    /\ error_markers = {}
    /\ division_lookahead_time_points = 0
    /\ op = "none"
    /\ args = <<>>
    /\ result = <<>>
    /\ before = EmptyGraph
    /\ runs = 0
    /\ link_data = NoLinkData
    /\ track_to_color = <<>>

\* The DELETE key: self._delete_warning(). The view is drawn again when a
\* warning was deleted.
DeleteWarning ==
    /\ runs <= Cardinality(PositionsUpTo(MaxWarningTime))
    /\ LET after == _delete_warning(position_data, particle_list, current_particle_index)
       IN /\ position_data' = after.data
          /\ particle_list' = after.list
          /\ current_particle_index' = after.index
    /\ op' = "_delete_warning"
    /\ runs' = runs + 1
    /\ UNCHANGED <<current_particle, visited, mask, pending_command_text,
                   controls_enabled, _visualizer, handlers, calls, disk, pc>>
    /\ UNCHANGED <<graph, end_markers, error_markers, division_lookahead_time_points,
                   args, result, before, link_data, track_to_color>>

NextWarnings == DeleteWarning

SpecWarnings == InitWarnings /\ [][NextWarnings]_vars

----------------------------------------------------------------------------
(* The key handler as a state machine *)

\* A visualizer that was just made: no command pending, controls enabled.
InitKeys ==
    /\ pending_command_text = None
    /\ controls_enabled = TRUE
    /\ calls = <<>>
    /\ current_particle = <<>>
    /\ visited = <<>>
    /\ mask = <<>>
    /\ particle_list = <<>>
    /\ current_particle_index = -1
    /\ _visualizer = <<>>
    /\ handlers = <<>>
    /\ disk = <<>>
    /\ pc = "idle"
    /\ graph = EmptyGraph
    /\ end_markers = <<>>
    /\ error_markers = {}
    /\ division_lookahead_time_points = 0
    /\ op = "none"
    /\ args = <<>>
    /\ result = <<>>
    /\ before = EmptyGraph
    /\ runs = 0
    /\ position_data = {}
    /\ link_data = NoLinkData
    /\ track_to_color = <<>>

\* What no key changes.
KeysFrame ==
    /\ UNCHANGED <<current_particle, visited, mask, particle_list, current_particle_index,
                   _visualizer, handlers, disk, pc>>
    /\ UNCHANGED <<graph, end_markers, error_markers, division_lookahead_time_points,
                   result, before, runs, position_data, link_data, track_to_color>>

\* A key is pressed: _on_key_press_raw(event). calls holds the calls that the
\* handler made for this key.
OnKeyPressRaw ==
    /\ \E key \in CharacterKeys \cup NamedKeys :
          LET after == _on_key_press_raw(pending_command_text, controls_enabled, key)
          IN /\ after.pending # None => Len(after.pending[1]) <= MaxCommandLength
             /\ pending_command_text' = after.pending
             /\ controls_enabled' = after.enabled
             /\ calls' = after.made
             /\ args' = <<key>>
    /\ op' = "_on_key_press_raw"
    /\ KeysFrame

\* A subclass switches the controls off, for as long as it is busy.
DisableControls ==
    /\ controls_enabled
    /\ controls_enabled' = FALSE
    /\ op' = "disable_controls"
    /\ args' = <<>>
    /\ calls' = <<>>
    /\ UNCHANGED pending_command_text
    /\ KeysFrame

NextKeys == OnKeyPressRaw \/ DisableControls

SpecKeys == InitKeys /\ [][NextKeys]_vars

----------------------------------------------------------------------------
(* The active visualizer as a state machine *)

Visualizers == 1..MaxVisualizers

\* The program has started: no visualizer was made and none is active.
InitActivate ==
    /\ _visualizer = None
    /\ handlers = <<>>
    /\ calls = <<>>
    /\ pending_command_text = <<>>
    /\ controls_enabled = TRUE
    /\ current_particle = <<>>
    /\ visited = <<>>
    /\ mask = <<>>
    /\ particle_list = <<>>
    /\ current_particle_index = -1
    /\ disk = <<>>
    /\ pc = "idle"
    /\ graph = EmptyGraph
    /\ end_markers = <<>>
    /\ error_markers = {}
    /\ division_lookahead_time_points = 0
    /\ op = "none"
    /\ args = <<>>
    /\ result = <<>>
    /\ before = EmptyGraph
    /\ runs = 0
    /\ position_data = {}
    /\ link_data = NoLinkData
    /\ track_to_color = <<>>

\* What neither making nor activating a visualizer changes.
ActivateFrame ==
    /\ UNCHANGED <<current_particle, visited, mask, particle_list, current_particle_index,
                   pending_command_text, controls_enabled, disk, pc>>
    /\ UNCHANGED <<graph, end_markers, error_markers, division_lookahead_time_points,
                   result, before, runs, position_data, link_data, track_to_color>>

\* A visualizer is made: Visualizer(experiment, figure).
NewVisualizer ==
    /\ \E v \in Visualizers \ DOMAIN handlers :
          /\ handlers' = Visualizer(handlers, v)
          /\ args' = <<v>>
    /\ op' = "Visualizer"
    /\ calls' = <<>>
    /\ UNCHANGED _visualizer
    /\ ActivateFrame

\* activate(v) for a visualizer that was made.
Activate ==
    /\ \E v \in DOMAIN handlers :
          LET after == activate(_visualizer, handlers, v)
          IN /\ _visualizer' = after.active
             /\ handlers' = after.connected
             /\ calls' = after.made
             /\ args' = <<v>>
    /\ op' = "activate"
    /\ ActivateFrame

NextActivate == NewVisualizer \/ Activate

SpecActivate == InitActivate /\ [][NextActivate]_vars

----------------------------------------------------------------------------
(* Saving as a state machine *)

SaveMethods == {"save_data_to_json", "save_positions_to_json"}

\* A file of data 0 was saved completely; no save is running.
InitSave ==
    /\ disk = (json_file_name :> Complete(0))
    /\ pc = "idle"
    /\ runs = 0
    /\ op = "none"
    /\ args = <<>>
    /\ result = <<>>
    /\ _visualizer = <<>>
    /\ handlers = <<>>
    /\ calls = <<>>
    /\ pending_command_text = <<>>
    /\ controls_enabled = TRUE
    /\ current_particle = <<>>
    /\ visited = <<>>
    /\ mask = <<>>
    /\ particle_list = <<>>
    /\ current_particle_index = -1
    /\ graph = EmptyGraph
    /\ end_markers = <<>>
    /\ error_markers = {}
    /\ division_lookahead_time_points = 0
    /\ before = EmptyGraph
    /\ position_data = {}
    /\ link_data = NoLinkData
    /\ track_to_color = <<>>

\* What no step of a save changes.
SaveFrame ==
    /\ UNCHANGED <<current_particle, visited, mask, particle_list, current_particle_index,
                   pending_command_text, controls_enabled, _visualizer, handlers, calls>>
    /\ UNCHANGED <<graph, end_markers, error_markers, division_lookahead_time_points,
                   before, position_data, link_data, track_to_color>>

\* The save of new data starts: if the file exists it is renamed to the .OLD
\* name. When a file of the .OLD name exists, os.rename replaces it (POSIX) or
\* raises FileExistsError (Windows), which ends the save.
SaveRename ==
    /\ pc = "idle"
    /\ runs < MaxSaves
    /\ runs' = runs + 1
    /\ \E method \in SaveMethods : op' = method
    /\ args' = <<json_file_name, runs + 1>>
    /\ IF exists(disk, json_file_name)
       THEN \/ /\ disk' = os_rename(disk, json_file_name, json_file_name_old)
               /\ pc' = "renamed"
               /\ result' = <<>>
            \/ /\ exists(disk, json_file_name_old)
               /\ disk' = disk
               /\ pc' = "idle"
               /\ result' = Raised("FileExistsError")
       ELSE /\ disk' = disk
            /\ pc' = "renamed"
            /\ result' = <<>>
    /\ SaveFrame

\* open(json_file_name, 'w')
SaveOpen ==
    /\ pc = "renamed"
    /\ disk' = open_w(disk, json_file_name, args[2])
    /\ pc' = "opened"
    /\ UNCHANGED <<op, args, result, runs>>
    /\ SaveFrame

\* json.dump wrote everything and the file was closed.
SaveDump ==
    /\ pc = "opened"
    /\ disk' = json_dump(disk, json_file_name, args[2])
    /\ pc' = "dumped"
    /\ UNCHANGED <<op, args, result, runs>>
    /\ SaveFrame

\* The .OLD file is removed if it exists, and the save returns.
SaveRemoveOld ==
    /\ pc = "dumped"
    /\ disk' = IF exists(disk, json_file_name_old)
               THEN os_remove(disk, json_file_name_old)
               ELSE disk
    /\ pc' = "idle"
    /\ result' = Returned(None)
    /\ UNCHANGED <<op, args, runs>>
    /\ SaveFrame

\* The save stops where it is: an exception of open or json.dump, or the
\* end of the process. The files stay as they are.
SaveStops ==
    /\ pc # "idle"
    /\ pc' = "idle"
    /\ result' = Raised("stopped")
    /\ UNCHANGED <<disk, op, args, runs>>
    /\ SaveFrame

NextSave == SaveRename \/ SaveOpen \/ SaveDump \/ SaveRemoveOld \/ SaveStops

SpecSave == InitSave /\ [][NextSave]_vars

----------------------------------------------------------------------------
(* A Mask as a state machine *)

Coordinates == 0..MaxCoordinate

\* The boxes given to the calls: any bounds on the x axis, and the same bounds
\* on the y and on the z axis.
Boxes ==
    {BoundingBox(min_x, min_yz, min_yz, max_x, max_yz, max_yz) :
        min_x \in Coordinates, max_x \in Coordinates,
        min_yz \in Coordinates, max_yz \in Coordinates}

\* Everything but the mask and the calls made on it stays as it is.
MaskFrame ==
    /\ UNCHANGED <<current_particle, visited, particle_list, current_particle_index,
                   pending_command_text, controls_enabled, _visualizer, handlers,
                   disk, pc>>
    /\ UNCHANGED <<graph, end_markers, error_markers, division_lookahead_time_points,
                   before, runs, position_data, link_data, track_to_color>>

\* The call of a method of the mask: what it gave and what it left.
Called(method, arguments, call) ==
    /\ mask' = call.self
    /\ result' = call.outcome
    /\ op' = method
    /\ args' = arguments
    /\ calls' = Append(calls, method)
    /\ MaskFrame

InitMask ==
    /\ mask = Mask(BoundingBox(0, 0, 0, MaxCoordinate, MaxCoordinate, MaxCoordinate))
    /\ current_particle = <<>>
    /\ visited = <<>>
    /\ particle_list = <<>>
    /\ current_particle_index = -1
    /\ pending_command_text = <<>>
    /\ controls_enabled = TRUE
    /\ _visualizer = <<>>
    /\ handlers = <<>>
    /\ calls = <<>>
    /\ disk = <<>>
    /\ pc = "idle"
    /\ graph = EmptyGraph
    /\ end_markers = <<>>
    /\ error_markers = {}
    /\ division_lookahead_time_points = 0
    /\ op = "none"
    /\ args = <<>>
    /\ result = <<>>
    /\ before = EmptyGraph
    /\ runs = 0
    /\ position_data = {}
    /\ link_data = NoLinkData
    /\ track_to_color = <<>>

SetBounds ==
    /\ Len(calls) < MaxMaskCalls
    /\ \E box \in Boxes : Called("set_bounds", <<box>>, set_bounds(mask, box))

SetBoundsExact ==
    /\ Len(calls) < MaxMaskCalls
    /\ \E box \in Boxes :
          Called("set_bounds_exact", <<box>>,
                 set_bounds_exact(mask, box.min_x, box.min_y, box.min_z,
                                  box.max_x, box.max_y, box.max_z))

SetBoundsAround ==
    /\ Len(calls) < MaxMaskCalls
    /\ \E x \in Coordinates, yz \in Coordinates, padding \in 0..1 :
          Called("set_bounds_around", <<x, yz, padding>>,
                 set_bounds_around(mask, x, yz, yz, padding, padding, padding))

GetMaskArray ==
    /\ Len(calls) < MaxMaskCalls
    /\ Called("get_mask_array", <<>>, get_mask_array(mask))

NextMask == SetBounds \/ SetBoundsExact \/ SetBoundsAround \/ GetMaskArray

SpecMask == InitMask /\ [][NextMask]_vars

----------------------------------------------------------------------------
(* Division counts as a state machine *)

InitCount ==
    /\ graph \in Lineages(MaxDepth)
    /\ end_markers \in TrackEndMarkerChoices(MaxDepth, graph)
    /\ error_markers = {}
    /\ division_lookahead_time_points = 0
    /\ op = "none"
    /\ args = <<>>
    /\ result = <<>>
    /\ before = EmptyGraph
    /\ runs = 0
    /\ position_data = {}
    /\ link_data = NoLinkData
    /\ track_to_color = <<>>
    /\ ViewIdle

\* Variant: the call removes the last position of the starting track.
GetDivisionCountRemoving ==
    /\ op = "none"
    /\ \E starting_track \in find_all_tracks(graph),
          last_time_point_number \in 0..(MaxDepth + 1),
          require_accurate \in BOOLEAN :
          /\ args' = <<starting_track, last_time_point_number, require_accurate>>
          /\ result' = get_division_count_in_lineage(graph, end_markers, starting_track,
                                                     last_time_point_number,
                                                     require_accurate)
          /\ graph' = remove_particle(graph, find_last_position(starting_track))
    /\ op' = "get_division_count_in_lineage"
    /\ before' = graph
    /\ UNCHANGED view_vars
    /\ UNCHANGED <<track_to_color, end_markers, error_markers, division_lookahead_time_points, runs,
                   position_data, link_data>>

\* get_division_count_in_lineage(starting_track, links, last_time_point_number,
\*                               require_accurate=...)
\* The function only queries the tracks and the end markers.
GetDivisionCount ==
    /\ op = "none"
    /\ \E starting_track \in find_all_tracks(graph),
          last_time_point_number \in 0..(MaxDepth + 1),
          require_accurate \in BOOLEAN :
          /\ args' = <<starting_track, last_time_point_number, require_accurate>>
          /\ result' = get_division_count_in_lineage(graph, end_markers, starting_track,
                                                     last_time_point_number,
                                                     require_accurate)
    /\ op' = "get_division_count_in_lineage"
    /\ before' = graph
    /\ UNCHANGED view_vars
    /\ UNCHANGED <<track_to_color, graph, end_markers, error_markers,
                   division_lookahead_time_points, runs, position_data, link_data>>

NextCount == GetDivisionCount

\* get_division_count_in_lineage(links, starting_track, last_time_point_number,
\*                               require_accurate=False)
GetDivisionCountInaccurate ==
    /\ op = "none"
    /\ \E starting_track \in find_all_tracks(graph),
          last_time_point_number \in 0..(MaxDepth + 1) :
          /\ args' = <<starting_track, last_time_point_number, FALSE>>
          /\ result' = get_division_count_in_lineage(graph, end_markers, starting_track,
                                                     last_time_point_number, FALSE)
    /\ op' = "get_division_count_in_lineage"
    /\ before' = graph
    /\ UNCHANGED view_vars
    /\ UNCHANGED <<track_to_color, graph, end_markers, error_markers,
                   division_lookahead_time_points, runs, position_data, link_data>>

NextCountInaccurate == GetDivisionCountInaccurate

SpecCountInaccurate == InitCount /\ [][NextCountInaccurate]_vars

SpecCount == InitCount /\ [][NextCount]_vars

\* The same operation on lineages with up to three daughters per division.
InitCountWide ==
    /\ graph \in WideLineages(MaxWideDepth)
    /\ end_markers \in WideTrackEndMarkerChoices(MaxWideDepth, graph)
    /\ error_markers = {}
    /\ division_lookahead_time_points = 0
    /\ op = "none"
    /\ args = <<>>
    /\ result = <<>>
    /\ before = EmptyGraph
    /\ runs = 0
    /\ position_data = {}
    /\ link_data = NoLinkData
    /\ track_to_color = <<>>
    /\ ViewIdle

SpecCountWide == InitCountWide /\ [][NextCount]_vars

----------------------------------------------------------------------------
(* Saving and loading links as a state machine *)

\* The data names and values of the generic position data. The name "id" is
\* the key of the position itself in a node and is no data name.
DataNames == {"ending", "error"}
DataValues == {"dead", "shed"}

\* At most one position has data of any kind, one value for one or for both
\* data names; the first position of the lineage may have an error besides.
PositionDataChoices(T) ==
    LET one == {{}} \cup
               {{<<p, name, f[name]>> : name \in DOMAIN f} :
                   p \in PositionsUpTo(T),
                   f \in UNION {[names -> DataValues] :
                                    names \in (SUBSET DataNames) \ {{}}}}
    IN one \cup {set_position_data(data, <<"a", first_time_point_number>>,
                                   "error", "dead") : data \in one}

\* The time windows a file is loaded with: the default of _add_d3_data, or
\* any window of the time points of the experiment.
MinTimePoints(T) == {default_min_time_point} \cup (0..T)
MaxTimePoints(T) == {default_max_time_point} \cup (0..T)

InitIo ==
    /\ graph \in Lineages(MaxIoTime)
    /\ position_data \in PositionDataChoices(MaxIoTime)
    /\ link_data = NoLinkData
    /\ track_to_color = <<>>
    /\ ViewIdle
    /\ end_markers = NoMarkers(MaxIoTime)
    /\ error_markers = {}
    /\ division_lookahead_time_points = 0
    /\ op = "none"
    /\ args = <<>>
    /\ result = <<>>
    /\ before = EmptyGraph
    /\ runs = 0

\* _links_to_d3_data(experiment.links, experiment.positions): the positions of
\* the experiment are all positions, linked or not.
LinksToD3Data ==
    /\ op = "none"
    /\ \E reversed \in BOOLEAN :
          link_data' = _links_to_d3_data(graph, position_data,
                                         Ordered(PositionsUpTo(MaxIoTime), reversed))
    /\ op' = "_links_to_d3_data"
    /\ before' = Saved(graph, position_data)
    /\ UNCHANGED view_vars
    /\ UNCHANGED <<track_to_color, graph, position_data, end_markers, error_markers,
                   division_lookahead_time_points, args, result, runs>>

\* _parse_links_format(experiment, link_data, min_time_point, max_time_point)
\* on a new experiment.
ParseLinksFormat ==
    /\ op = "_links_to_d3_data"
    /\ \E min_time_point \in MinTimePoints(MaxIoTime),
          max_time_point \in MaxTimePoints(MaxIoTime) :
          LET loaded == _parse_links_format(NewLinks, link_data,
                                            min_time_point, max_time_point)
          IN /\ min_time_point <= max_time_point
             /\ graph' = loaded.graph
             /\ position_data' = loaded.position_data
             /\ args' = <<min_time_point, max_time_point>>
    /\ op' = "_parse_links_format"
    /\ UNCHANGED view_vars
    /\ UNCHANGED <<track_to_color, link_data, end_markers, error_markers,
                   division_lookahead_time_points, result, before, runs>>

\* load_links_from_json(json_file_name, min_time_point, max_time_point)
LoadLinksFromJson ==
    /\ op = "_links_to_d3_data"
    /\ \E min_time_point \in 0..MaxIoTime, max_time_point \in 0..MaxIoTime :
          LET loaded == load_links_from_json(link_data, min_time_point, max_time_point)
          IN /\ min_time_point <= max_time_point
             /\ graph' = loaded.graph
             /\ position_data' = loaded.position_data
             /\ args' = <<min_time_point, max_time_point>>
    /\ op' = "load_links_from_json"
    /\ UNCHANGED view_vars
    /\ UNCHANGED <<track_to_color, link_data, end_markers, error_markers,
                   division_lookahead_time_points, result, before, runs>>

NextIo == LinksToD3Data \/ ParseLinksFormat \/ LoadLinksFromJson

SpecIo == InitIo /\ [][NextIo]_vars

----------------------------------------------------------------------------
(* Shape serialization as a state machine *)

Values == 0..MaxValue

\* Every shape of the three variants over the values.
Shapes ==
    {UnknownShape}
    \cup {EllipseShape(dx, dy, width, height, angle, original_perimeter, area, eccentric) :
              dx \in Values, dy \in Values, width \in Values, height \in Values,
              angle \in Values,
              original_perimeter \in {None} \cup {Some(v) : v \in Values},
              area \in Values, eccentric \in BOOLEAN}
    \cup {GaussianShape(Gaussian(parameters)) :
              parameters \in [1..GaussianParameters -> Values]}

\* First elements of the lists: the two tags and strings that are no tag.
Tags == {"ellipse", "gaussian", "unknown", "Ellipse", "circle", ""}

\* The empty list and the lists of a first element and a few numbers.
ShortLists ==
    {<<>>} \cup
    {<<tag>> \o rest :
        tag \in Tags,
        rest \in UNION {[1..n -> Values] : n \in 0..MaxRestLength}}

InitShape ==
    /\ args \in {<<"list", list>> : list \in ShortLists}
                 \cup {<<"shape", shape>> : shape \in Shapes}
    /\ op = "none"
    /\ result = <<>>
    /\ before = <<>>
    /\ graph = EmptyGraph
    /\ end_markers = <<>>
    /\ error_markers = {}
    /\ division_lookahead_time_points = 0
    /\ runs = 0
    /\ position_data = {}
    /\ link_data = NoLinkData
    /\ track_to_color = <<>>
    /\ ViewIdle

\* shape.to_list()
ToList ==
    /\ op = "none"
    /\ args[1] = "shape"
    /\ result' = to_list(args[2])
    /\ op' = "to_list"
    /\ UNCHANGED view_vars
    /\ UNCHANGED <<track_to_color, graph, end_markers, error_markers, division_lookahead_time_points,
                   args, before, runs, position_data, link_data>>

\* shape.from_list(list), of a given list or of the list to_list returned;
\* the list is kept in before.
FromList ==
    /\ \/ op = "none" /\ args[1] = "list"
       \/ op = "to_list"
    /\ LET list == IF op = "to_list" THEN result ELSE args[2]
       IN /\ result' = from_list(list)
          /\ before' = list
    /\ op' = IF op = "to_list" THEN "from_list(to_list)" ELSE "from_list"
    /\ UNCHANGED view_vars
    /\ UNCHANGED <<track_to_color, graph, end_markers, error_markers, division_lookahead_time_points,
                   args, runs, position_data, link_data>>

NextShape == ToList \/ FromList

SpecShape == InitShape /\ [][NextShape]_vars

----------------------------------------------------------------------------
(* The errored tracks of the lineage tree as a state machine *)

\* Up to two positions, linked or not, have an error marker.
ErrorMarkerPairs(T) ==
    {{p, q} : p \in PositionsUpTo(T), q \in PositionsUpTo(T)} \cup {{}}

InitTreeErrors ==
    /\ graph \in Forests(MaxTreeTime)
    /\ error_markers \in ErrorMarkerPairs(MaxTreeTime)
    /\ end_markers = NoMarkers(MaxTreeTime)
    /\ division_lookahead_time_points = 0
    /\ op = "none"
    /\ args = <<>>
    /\ result = <<>>
    /\ before = EmptyGraph
    /\ runs = 0
    /\ position_data = {}
    /\ link_data = NoLinkData
    /\ track_to_color = <<>>
    /\ ViewIdle

\* LineageTreeVisualizer._find_tracks_with_errors()
FindTracksWithErrors ==
    /\ op = "none"
    /\ result' = _find_tracks_with_errors(graph, error_markers)
    /\ op' = "_find_tracks_with_errors"
    /\ UNCHANGED view_vars
    /\ UNCHANGED <<track_to_color, graph, end_markers, error_markers, division_lookahead_time_points,
                   args, before, runs, position_data, link_data>>

NextTreeErrors == FindTracksWithErrors

SpecTreeErrors == InitTreeErrors /\ [][NextTreeErrors]_vars

----------------------------------------------------------------------------
(* The colors of the lineage tree as a state machine *)

\* Any one position may hold the lineage color 1, and the position of lane
\* "b" in the first time point the lineage color 2.
LineageColorChoices(T) ==
    LET one == {{}} \cup {{<<p, "color", 1>>} : p \in PositionsUpTo(T)}
    IN one \cup {set_position_data(data, <<"b", first_time_point_number>>, "color", 2) :
                    data \in one}

InitTreeColors ==
    /\ graph \in Forests(MaxTreeTime)
    /\ position_data \in LineageColorChoices(MaxTreeTime)
    /\ track_to_color = <<>>
    /\ ViewIdle
    /\ error_markers = {}
    /\ end_markers = NoMarkers(MaxTreeTime)
    /\ division_lookahead_time_points = 0
    /\ op = "none"
    /\ args = <<>>
    /\ result = <<>>
    /\ before = EmptyGraph
    /\ runs = 0
    /\ link_data = NoLinkData

\* LineageTreeVisualizer._calculate_track_colors(), when the view is drawn
\* and when it is drawn again after a change of the links.
CalculateTrackColors ==
    /\ op \in {"none", "remove_position"}
    /\ track_to_color' = _calculate_track_colors(track_to_color, graph, position_data)
    /\ op' = "_calculate_track_colors"
    /\ UNCHANGED view_vars
    /\ UNCHANGED <<graph, position_data, end_markers, error_markers,
                   division_lookahead_time_points, args, result, before, runs,
                   link_data>>

\* The user removes a position, once, while the lineage tree is shown; the
\* data of the position goes with it.
RemovePosition ==
    /\ op = "_calculate_track_colors"
    /\ before = EmptyGraph
    /\ \E position \in graph.nodes :
          /\ graph' = remove_particle(graph, position)
          /\ position_data' = {t \in position_data : t[1] # position}
          /\ args' = <<position>>
    /\ before' = graph
    /\ op' = "remove_position"
    /\ UNCHANGED view_vars
    /\ UNCHANGED <<track_to_color, end_markers, error_markers,
                   division_lookahead_time_points, result, runs, link_data>>

NextTreeColors == CalculateTrackColors \/ RemovePosition

SpecTreeColors == InitTreeColors /\ [][NextTreeColors]_vars

----------------------------------------------------------------------------
(* Properties of spur removal *)

\* The root of the lineage of p: the ancestor of p that has no past.
RECURSIVE LineageRoot(_, _)
LineageRoot(g, p) ==
    IF find_past_particles(g, p) = {} THEN p
    ELSE LineageRoot(g, CHOOSE q \in find_past_particles(g, p) : TRUE)

\* Number of links of the track of p.
TrackLength(g, p) == Len(get_track(g, p)) - 1

\* The track of p ends without next positions.
TrackEnds(g, p) == find_future_particles(g, find_last_position(get_track(g, p))) = {}

\* The track of p is walked by _remove_spurs: its lineage starts at an
\* appeared cell.
Inspected(g, p) == LineageRoot(g, p) \in find_appeared_cells(g)

\* C2 (as claimed): a second run of _remove_spurs directly after a first one
\* removes nothing: the graph after two runs equals the graph after one.
C2_SecondRunRemovesNothing ==
    (op = "remove_spurs" /\ runs = 2) => graph = before

C9_SpursRemoved ==
    op = "remove_spurs" =>
        /\ \A p \in before.nodes :
              ( /\ Inspected(before, p)
                /\ TrackEnds(before, p)
                /\ TrackLength(before, p) < min_track_length )
              => p \notin graph.nodes
        /\ \A e \in graph.edges : e[1] \in graph.nodes /\ e[2] \in graph.nodes

\* A chain that appears at one time point and ends at the next had both of
\* its positions removed.
C9_Witness ==
    /\ op = "remove_spurs"
    /\ \E p \in before.nodes :
          /\ p \in find_appeared_cells(before)
          /\ TrackEnds(before, p)
          /\ TrackLength(before, p) = 1
          /\ \A i \in 1..2 : get_track(before, p)[i] \notin graph.nodes

\* The track of p ends without next positions after fewer than 3 links.
IsSpur(g, p) == TrackEnds(g, p) /\ TrackLength(g, p) < min_track_length

\* C23: _remove_spurs only walks the lineages that start at an appeared cell:
\* every position of a lineage that starts at the first time point is still
\* in the graph after the run, with its links, however short the tracks of
\* that lineage that end are.
C23_FirstTimePointLineagesKept ==
    op = "remove_spurs" =>
        /\ \A p \in before.nodes :
               time_point_number(LineageRoot(before, p)) = first_time_point_number
                   => p \in graph.nodes
        /\ \A e \in before.edges :
               time_point_number(LineageRoot(before, e[1])) = first_time_point_number
                   => e \in graph.edges

\* A run removed positions of another lineage while a lineage that starts at
\* the first time point has, after a division, a track that ends after fewer
\* than 3 links.
C23_Witness ==
    /\ op = "remove_spurs"
    /\ graph.nodes # before.nodes
    /\ \E p \in before.nodes :
          /\ time_point_number(LineageRoot(before, p)) = first_time_point_number
          /\ find_first_position(before, p) # LineageRoot(before, p)
          /\ IsSpur(before, p)
          /\ p \in graph.nodes

\* The positions before p in its lineage.
RECURSIVE Ancestors(_, _)
Ancestors(g, p) ==
    LET past == find_past_particles(g, p)
    IN past \cup UNION {Ancestors(g, q) : q \in past}

\* The mothers of the divisions that a run on g reaches.
ReachedDivisions(g) ==
    {m \in g.nodes : Inspected(g, m) /\ Cardinality(find_future_particles(g, m)) > 1}

\* C24: at a division reached by _remove_spurs every daughter is judged on
\* its own track, counted from the daughter: the positions of the track of a
\* daughter are deleted exactly when that track ends after fewer than 3
\* links, whatever happens to the other daughter; the mother and every
\* position before it stay in the graph, with the links between them.
C24_DaughtersJudgedIndependently ==
    op = "remove_spurs" =>
        \A m \in ReachedDivisions(before) :
            /\ m \in graph.nodes
            /\ Ancestors(before, m) \subseteq graph.nodes
            /\ \A q \in Ancestors(before, m) \cup {m} :
                   \A e \in before.edges : e[2] = q => e \in graph.edges
            /\ \A d \in find_future_particles(before, m) :
                   LET track == positions_from(before, d)
                   IN \A i \in 1..Len(track) :
                          (track[i] \notin graph.nodes) <=> IsSpur(before, d)

\* One daughter of a reached division was pruned with all of its track; the
\* track of the other daughter, the mother and a position before the mother
\* are still there.
C24_Witness ==
    /\ op = "remove_spurs"
    /\ \E m \in ReachedDivisions(before) :
          /\ Ancestors(before, m) # {}
          /\ Ancestors(before, m) \cup {m} \subseteq graph.nodes
          /\ \E d, sibling \in find_future_particles(before, m) :
                /\ d # sibling
                /\ IsSpur(before, d)
                /\ \A i \in 1..Len(positions_from(before, d)) :
                       positions_from(before, d)[i] \notin graph.nodes
                /\ ~IsSpur(before, sibling)
                /\ \A i \in 1..Len(positions_from(before, sibling)) :
                       positions_from(before, sibling)[i] \in graph.nodes

----------------------------------------------------------------------------
(* Properties of get_fate *)

\* The positions the walk of get_fate from p visits: p, and the only future
\* of every visited position that has no error marker.
RECURSIVE Walked(_, _, _)
Walked(g, errors, p) ==
    {p} \cup
    (IF p \notin errors /\ Cardinality(find_futures(g, p)) = 1
     THEN Walked(g, errors, CHOOSE q \in find_futures(g, p) : TRUE)
     ELSE {})

Asked == args[1]

TimeFromAsked(q) == time_point_number(q) - time_point_number(Asked)

\* The answer of the lookahead test for a walk that stopped at q.
LookaheadAnswer(q) ==
    IF TimeFromAsked(q) > division_lookahead_time_points
    THEN CellFate("JUST_MOVING", None)
    ELSE CellFate("UNKNOWN", None)

C5_ErrorLikeNoNextPosition ==
    op = "get_fate" =>
        \A e \in Walked(graph, error_markers, Asked) :
            e \in error_markers =>
                result = IF end_markers[e] = "DEAD"
                         THEN CellFate("WILL_DIE", Some(TimeFromAsked(e)))
                         ELSE LookaheadAnswer(e)

\* C5 (amended): the walk stops at a visited position with an error marker;
\* the result is WILL_DIE only if that position has no next positions and
\* its end marker is DEAD, and else the answer of the lookahead test at that
\* position, never WILL_DIVIDE.
C5_ErrorStopsWalk ==
    op = "get_fate" =>
        \A e \in Walked(graph, error_markers, Asked) :
            e \in error_markers =>
                /\ result = IF find_futures(graph, e) = {} /\ end_markers[e] = "DEAD"
                            THEN CellFate("WILL_DIE", Some(TimeFromAsked(e)))
                            ELSE LookaheadAnswer(e)
                /\ result.type # "WILL_DIVIDE"

\* The walk reached, after at least one step, a position with an error
\* marker that has two next positions.
C5_Witness ==
    /\ op = "get_fate"
    /\ \E e \in Walked(graph, error_markers, Asked) :
          /\ e \in error_markers
          /\ e # Asked
          /\ Cardinality(find_futures(graph, e)) = 2
    /\ result.type \in {"UNKNOWN", "JUST_MOVING"}

\* C6: get_fate returns WILL_DIVIDE exactly when the walk visits a position
\* without error marker that has two or more next positions;
\* time_points_remaining is then the time from the asked position to it.
C6_WillDivide ==
    op = "get_fate" =>
        LET mothers == {m \in Walked(graph, error_markers, Asked) :
                           /\ m \notin error_markers
                           /\ Cardinality(find_futures(graph, m)) >= 2}
        IN /\ result.type = "WILL_DIVIDE" <=> mothers # {}
           /\ \A m \in mothers :
                  result.time_points_remaining = Some(TimeFromAsked(m))

\* WILL_DIVIDE was returned for a mother two time points after the asked
\* position.
C6_Witness ==
    /\ op = "get_fate"
    /\ result.type = "WILL_DIVIDE"
    /\ result.time_points_remaining = Some(2)

\* C7: when the walk visits a position without next positions whose end
\* marker is DEAD, get_fate returns WILL_DIE with the time from the asked
\* position to it, whatever the lookahead.
C7_WillDie ==
    op = "get_fate" =>
        \A d \in Walked(graph, error_markers, Asked) :
            (find_futures(graph, d) = {} /\ end_markers[d] = "DEAD") =>
                result = CellFate("WILL_DIE", Some(TimeFromAsked(d)))

\* A death later than the lookahead window, asked from a position after the
\* first time point.
C7_Witness ==
    /\ op = "get_fate"
    /\ time_point_number(Asked) > 0
    /\ \E d \in Walked(graph, error_markers, Asked) :
          /\ find_futures(graph, d) = {}
          /\ end_markers[d] = "DEAD"
          /\ TimeFromAsked(d) > division_lookahead_time_points
    /\ result.type = "WILL_DIE"

----------------------------------------------------------------------------
(* Properties of get_division_count_in_lineage *)

StartingTrack == args[1]
LastTimePoint == args[2]
RequireAccurate == args[3]

\* The positions reachable from p along links, p included.
RECURSIVE Descendants(_, _)
Descendants(g, p) ==
    {p} \cup UNION {Descendants(g, q) : q \in find_future_particles(g, p)}

\* The tracks of the lineage that starts with the given track.
LineageTracks(g, track) ==
    {positions_from(g, q) :
        q \in {d \in Descendants(g, track[1]) : find_first_position(g, d) = d}}

\* The track stopped before the end of the window without next tracks and
\* without a DEAD end marker.
Truncated(g, markers, track, last) ==
    /\ get_next_tracks(g, track) = {}
    /\ markers[find_last_position(track)] # "DEAD"
    /\ max_time_point_number(track) < last

\* C1: when some track of the lineage, wherever it sits, has no next tracks,
\* no DEAD end marker (SHED or none) and ends before last_time_point_number,
\* the count with require_accurate=True is None.
C1_TruncatedLineageIsNone ==
    (op = "get_division_count_in_lineage" /\ RequireAccurate) =>
        ( (\E track \in LineageTracks(graph, StartingTrack) :
               Truncated(graph, end_markers, track, LastTimePoint))
          => result = None )

\* None for a lineage whose only truncated track comes after two divisions
\* and ends with a SHED marker.
C1_Witness ==
    /\ op = "get_division_count_in_lineage"
    /\ RequireAccurate
    /\ result = None
    /\ \E track \in LineageTracks(graph, StartingTrack) :
          /\ Truncated(graph, end_markers, track, LastTimePoint)
          /\ end_markers[find_last_position(track)] = "SHED"
          /\ min_time_point_number(track) >= min_time_point_number(StartingTrack) + 2
          /\ \A other \in LineageTracks(graph, StartingTrack) \ {track} :
                 ~Truncated(graph, end_markers, other, LastTimePoint)

\* C4: for a lineage with exactly one division, both daughter tracks ending
\* with a DEAD end marker at or before last_time_point_number, the count with
\* require_accurate=True is 1.
C4_OneDivisionBothDead ==
    (op = "get_division_count_in_lineage" /\ RequireAccurate) =>
        LET daughters == get_next_tracks(graph, StartingTrack) IN
        ( /\ Cardinality(daughters) = 2
          /\ \A d \in daughters :
                /\ get_next_tracks(graph, d) = {}
                /\ end_markers[find_last_position(d)] = "DEAD"
                /\ max_time_point_number(d) <= LastTimePoint )
        => result = Some(1)

\* Such a lineage with a mother track of several positions, one daughter
\* ending at last_time_point_number and the other earlier.
C4_Witness ==
    /\ op = "get_division_count_in_lineage"
    /\ RequireAccurate
    /\ result = Some(1)
    /\ Len(StartingTrack) >= 2
    /\ LET daughters == get_next_tracks(graph, StartingTrack) IN
       /\ Cardinality(daughters) = 2
       /\ \A d \in daughters :
             /\ get_next_tracks(graph, d) = {}
             /\ end_markers[find_last_position(d)] = "DEAD"
       /\ \E d \in daughters : max_time_point_number(d) = LastTimePoint
       /\ \E d \in daughters : max_time_point_number(d) < LastTimePoint

\* The positions of the tracks that start after the given time point.
PastWindow(g, last) ==
    {p \in g.nodes : time_point_number(find_first_position(g, p)) > last}

\* The graph and the markers without the tracks that start after the given
\* time point.
WithoutPastWindow(g, past) ==
    [nodes |-> g.nodes \ past,
     edges |-> {e \in g.edges : e[1] \notin past /\ e[2] \notin past}]

MarkersWithoutPastWindow(markers, past) ==
    [p \in DOMAIN markers |-> IF p \in past THEN "NONE" ELSE markers[p]]

\* C10: tracks that start after last_time_point_number do not change the
\* result, in either mode: it is the result for the lineage without them
\* (and 0 when the starting track itself starts after last_time_point_number).
C10_PastWindowIgnored ==
    op = "get_division_count_in_lineage" =>
        IF min_time_point_number(StartingTrack) > LastTimePoint
        THEN result = Some(0)
        ELSE LET past == PastWindow(graph, LastTimePoint)
             IN result = get_division_count_in_lineage(
                             WithoutPastWindow(graph, past),
                             MarkersWithoutPastWindow(end_markers, past),
                             StartingTrack, LastTimePoint, RequireAccurate)

\* An accurate count was returned for a lineage in which a track that starts
\* after last_time_point_number ends without a DEAD marker before the last
\* time point of the lineage, while another one divides.
C10_Witness ==
    /\ op = "get_division_count_in_lineage"
    /\ RequireAccurate
    /\ result # None
    /\ min_time_point_number(StartingTrack) <= LastTimePoint
    /\ \E track \in LineageTracks(graph, StartingTrack) :
          /\ min_time_point_number(track) > LastTimePoint
          /\ get_next_tracks(graph, track) = {}
          /\ end_markers[find_last_position(track)] # "DEAD"
    /\ \E track \in LineageTracks(graph, StartingTrack) :
          /\ min_time_point_number(track) > LastTimePoint
          /\ get_next_tracks(graph, track) # {}

\* The tracks of the lineage that end before last_time_point_number with more
\* than one next track.
DivisionsInWindow(g, starting_track, last) ==
    {track \in LineageTracks(g, starting_track) :
        /\ Cardinality(get_next_tracks(g, track)) > 1
        /\ max_time_point_number(track) < last}

\* C11: an integer returned by get_division_count_in_lineage is the number of
\* tracks of the lineage that have more than one next track and end before
\* last_time_point_number: a division counts once whether it has two or three
\* daughters, and a track that reaches last_time_point_number is not counted
\* even if it divides.
C11_CountsDivisionsInWindow ==
    (op = "get_division_count_in_lineage" /\ result # None) =>
        result = Some(Cardinality(DivisionsInWindow(graph, StartingTrack, LastTimePoint)))

\* A count of 1 for a lineage whose starting track divides into three before
\* last_time_point_number and one of whose daughter tracks divides at
\* last_time_point_number or later.
C11_Witness ==
    /\ op = "get_division_count_in_lineage"
    /\ result = Some(1)
    /\ Cardinality(get_next_tracks(graph, StartingTrack)) = 3
    /\ max_time_point_number(StartingTrack) < LastTimePoint
    /\ \E track \in get_next_tracks(graph, StartingTrack) :
          /\ Cardinality(get_next_tracks(graph, track)) > 1
          /\ max_time_point_number(track) >= LastTimePoint

\* The last positions of the tracks of the lineage that end unexplained for
\* the given window.
UnexplainedEnds(g, markers, starting_track, last) ==
    {find_last_position(track) :
        track \in {t \in LineageTracks(g, starting_track) : Truncated(g, markers, t, last)}}

\* The markers with the end marker DEAD on each of the given positions.
WithEndsDead(markers, ends) ==
    [p \in DOMAIN markers |-> IF p \in ends THEN "DEAD" ELSE markers[p]]

\* C12: with require_accurate=False the result is never None but an integer
\* >= 0, and a track that ends unexplained adds nothing: the result is the
\* accurate count of the same lineage with those track ends explained by a
\* DEAD marker.
C12_InaccurateNeverNone ==
    (op = "get_division_count_in_lineage" /\ ~RequireAccurate) =>
        /\ result # None
        /\ result[1] >= 0
        /\ LET ends == UnexplainedEnds(graph, end_markers, StartingTrack, LastTimePoint)
           IN result = get_division_count_in_lineage(
                           graph, WithEndsDead(end_markers, ends),
                           StartingTrack, LastTimePoint, TRUE)

\* With require_accurate=False a count of at least 1 was returned for a
\* lineage with a track that ends unexplained after a division.
C12_Witness ==
    /\ op = "get_division_count_in_lineage"
    /\ ~RequireAccurate
    /\ result # None
    /\ result[1] >= 1
    /\ \E track \in LineageTracks(graph, StartingTrack) :
          /\ Truncated(graph, end_markers, track, LastTimePoint)
          /\ track # StartingTrack

AccurateResult ==
    get_division_count_in_lineage(graph, end_markers, StartingTrack, LastTimePoint, TRUE)

\* C29: whenever the call with require_accurate=True returns an integer, the
\* call with require_accurate=False on the same lineage and the same
\* last_time_point_number returns that integer; the two differ only where the
\* accurate call returns None.
C29_ModesAgree ==
    (op = "get_division_count_in_lineage" /\ ~RequireAccurate) =>
        (AccurateResult # None => result = AccurateResult)

\* Both calls return the count 2 for a lineage with two divisions in which
\* a track ends with a DEAD marker before last_time_point_number.
C29_Witness ==
    /\ op = "get_division_count_in_lineage"
    /\ ~RequireAccurate
    /\ AccurateResult = Some(2)
    /\ result = Some(2)
    /\ \E track \in LineageTracks(graph, StartingTrack) :
          /\ get_next_tracks(graph, track) = {}
          /\ end_markers[find_last_position(track)] = "DEAD"
          /\ max_time_point_number(track) < LastTimePoint

\* The particles the loop has been at are in consecutive order of time, from
\* the starting particle on: one per time point, none of them twice.
VisitedForwardInTime ==
    /\ \A i \in 1..Len(visited) :
           time_point_number(visited[i]) >= time_point_number(args[1])
    /\ \A i, j \in 1..Len(visited) :
           i < j => time_point_number(visited[i]) < time_point_number(visited[j])

\* C30: on a links graph whose links go forward in time, get_fate returns a
\* CellFate from any starting position: the loop is at no more than one
\* position per time point at or after the start, at no position twice, and
\* every call that was started returns.
C30_GetFateTerminates ==
    /\ [](pc \in {"while", "done"} => VisitedForwardInTime)
    /\ [](pc = "done" => result.type \in {"UNKNOWN", "JUST_MOVING", "WILL_DIVIDE", "WILL_DIE"})
    /\ (pc = "while" ~> pc = "done")

\* A call returned after the loop was at a position in each of three time
\* points.
C30_Witness ==
    /\ pc = "done"
    /\ op = "get_fate"
    /\ Len(visited) >= 3
    /\ result = get_fate(graph, end_markers, error_markers,
                         division_lookahead_time_points, args[1])

----------------------------------------------------------------------------
(* Properties of loading a linking result *)

\* The file that was asked for exists, is a data file of a known format and
\* version, and holds at least one link.
LoadedWithLinks ==
    /\ args[1] \in DOMAIN disk
    /\ Extension(args[1]) \in {"aut", "json"}
    /\ LET data == disk[args[1]]
       IN \/ data.kind = "linking" /\ data.links.links # <<>>
          \/ /\ data.kind = "general"
             /\ data.version = "v1"
             /\ data.links # None
             /\ data.links[1].links # <<>>

\* The links of the experiment are as they were before the call.
LinksAsBefore == Saved(graph, position_data) = before

\* C22 (as claimed): load_linking_result adds the links of the file to the
\* links of the experiment only when the file is loaded completely and has
\* links; in every other case it raises ValueError and the links of the
\* experiment are exactly as before the call.
C22_LoadIsAllOrNothing ==
    op = "load_linking_result" =>
        IF LoadedWithLinks
        THEN result.raised = "none"
        ELSE IsInstance(result.raised, "ValueError") /\ LinksAsBefore

----------------------------------------------------------------------------
(* Properties of the warnings list *)

\* The data of all nodes but the given one.
DataOfOthers(data, node) == {t \in data : t[1] # node}

\* The index is an index of the list, or -1 with an empty list.
IndexFitsList(index, list) ==
    \/ index \in 0..(Len(list) - 1)
    \/ index = -1 /\ list = <<>>

\* C25: every call of _delete_warning with an index of the list clears the
\* error and the warning of the particle at the index and takes it from the
\* list; the other particles stay in the list, in their order, with their
\* data; and the index is again an index of the list, or -1 when the list
\* became empty. A call with an index out of range changes nothing.
C25_DeleteWarningKeepsListConsistent ==
    [][op' = "_delete_warning" =>
          IF current_particle_index \in 0..(Len(particle_list) - 1)
          THEN LET deleted == particle_list[current_particle_index + 1] IN
               /\ NodeAttribute(position_data', deleted, "error") = Some(None)
               /\ NodeAttribute(position_data', deleted, "warning") = Some(None)
               /\ \A i \in 1..Len(particle_list') : particle_list'[i] # deleted
               /\ particle_list' =
                      SelectSeq(particle_list, LAMBDA listed : listed # deleted)
               /\ DataOfOthers(position_data', deleted)
                      = DataOfOthers(position_data, deleted)
               /\ IndexFitsList(current_particle_index', particle_list')
          ELSE UNCHANGED <<position_data, particle_list, current_particle_index>>
      ]_vars

\* After three deletions one particle is left in the list, at index 0, and
\* three particles have their error cleared.
C25_Witness ==
    /\ op = "_delete_warning"
    /\ runs = 3
    /\ Len(particle_list) = 1
    /\ current_particle_index = 0
    /\ Cardinality({t \in position_data : t[2] = "error" /\ t[3] = None}) = 3

----------------------------------------------------------------------------
(* Properties of the key handler *)

PressedKey == args'[1]

\* The calls of the given method that the handler made for the pressed key.
CallsOf(method) == SelectSeq(calls', LAMBDA call : call[1] = method)

\* C26: with the controls enabled and a command pending (after "/"), no key
\* is passed to _on_key_press; a key of one character is added to the end of
\* the pending text and backspace takes the last character away; enter ends
\* the command and passes the text to _on_command once if it has characters
\* and not at all if it has none; escape ends the command without a call of
\* _on_command. With the controls disabled every key but "1" changes
\* nothing and reaches no method.
C26_CommandMode ==
    [][op' = "_on_key_press_raw" =>
          /\ (controls_enabled /\ pending_command_text # None) =>
                LET text == pending_command_text[1] IN
                /\ CallsOf("_on_key_press") = <<>>
                /\ PressedKey \in CharacterKeys =>
                       pending_command_text' = Some(text \o <<PressedKey>>)
                /\ PressedKey = "backspace" =>
                       pending_command_text' =
                           Some(IF text = <<>> THEN text ELSE SubSeq(text, 1, Len(text) - 1))
                /\ PressedKey = "enter" =>
                       /\ pending_command_text' = None
                       /\ calls' = IF text = <<>> THEN <<>> ELSE <<<<"_on_command", text>>>>
                /\ PressedKey = "escape" =>
                       /\ pending_command_text' = None
                       /\ calls' = <<>>
                /\ PressedKey \notin {"enter", "escape"} =>
                       /\ pending_command_text' # None
                       /\ CallsOf("_on_command") = <<>>
          /\ (controls_enabled /\ pending_command_text = None /\ PressedKey = "/") =>
                /\ pending_command_text' = Some(<<>>)
                /\ calls' = <<>>
          /\ (~controls_enabled /\ PressedKey # "1") =>
                /\ UNCHANGED <<pending_command_text, controls_enabled>>
                /\ calls' = <<>>
      ]_vars

\* Enter passed a command of two characters, one of them "/", to
\* _on_command, after the controls had been disabled and enabled again.
C26_Witness ==
    /\ op = "_on_key_press_raw"
    /\ args = <<"enter">>
    /\ pending_command_text = None
    /\ calls = <<<<"_on_command", <<"/", "a">>>>>>
    /\ controls_enabled

----------------------------------------------------------------------------
(* Properties of the active visualizer *)

\* C27: after activate(v) the active visualizer is v and its handlers are
\* connected; the visualizer that was active before, if it is another one,
\* has its handlers disconnected, and it was detached before v was drawn.
\* This includes activate(v) for the v that is active already.
C27_ActiveIsConnected ==
    [][op' = "activate" =>
          LET v == args'[1] IN
          /\ _visualizer' = Some(v)
          /\ handlers'[v]
          /\ (_visualizer # None /\ _visualizer[1] # v) =>
                /\ ~handlers'[_visualizer[1]]
                /\ calls' = <<<<"detach", _visualizer[1]>>, <<"draw_view", v>>>>
      ]_vars

----------------------------------------------------------------------------
(* Properties of saving *)

\* C28: saving over an existing file never leaves the disk without a complete
\* copy of the data: wherever a save stops, the file or the .OLD file holds
\* complete contents; and after a save that returned no .OLD file remains.
C28_CompleteCopyKept ==
    /\ \E f \in {json_file_name, json_file_name_old} :
          /\ exists(disk, f)
          /\ disk[f].complete
    /\ (op \in SaveMethods /\ pc = "idle" /\ result = Returned(None)) =>
          /\ ~exists(disk, json_file_name_old)
          /\ disk[json_file_name] = Complete(args[2])

----------------------------------------------------------------------------
(* Properties of the Mask *)

SetBoundsMethods == {"set_bounds", "set_bounds_exact", "set_bounds_around"}

\* C21 (as claimed): a call of set_bounds, set_bounds_around or
\* set_bounds_exact that is made after a call of get_mask_array, or after an
\* earlier call of one of the three, is rejected with an error and leaves
\* the offsets and the maxima of the mask as they were.
C21_BoundsSetOnce ==
    [][(op' \in SetBoundsMethods /\ Len(calls') > Len(calls) /\ calls # <<>>)
          => (result'.raised # "none" /\ mask' = mask)]_vars

----------------------------------------------------------------------------
(* Missing linking data *)

CellFateTypes == {"UNKNOWN", "JUST_MOVING", "WILL_DIVIDE", "WILL_DIE"}

\* C14 (as claimed): get_fate on an experiment without any link returns no
\* CellFate, neither UNKNOWN nor another one, but signals the missing linking
\* data.
C14_NoLinksIsNoFate ==
    (op = "get_fate" /\ ~has_links(graph)) => result.type \notin CellFateTypes

----------------------------------------------------------------------------
(* Properties of saving and loading links *)

MinTimePoint == args[1]
MaxTimePoint == args[2]

\* The window does not cut anything off.
Unbounded ==
    MinTimePoint = default_min_time_point /\ MaxTimePoint = default_max_time_point

\* C15: links encoded with _links_to_d3_data and added to empty links with
\* _add_d3_data under the default (unbounded) time window are the links that
\* were encoded: the same positions, the same links and the same position
\* data, on positions with and without links.
C15_LinksRoundTrip ==
    (op = "_parse_links_format" /\ Unbounded) =>
        /\ find_all_positions(graph) = before.nodes
        /\ graph.edges = before.edges
        /\ position_data = before.position_data

\* Links with a division came back, with data under both data names on a
\* position without links.
C15_Witness ==
    /\ op = "_parse_links_format"
    /\ Unbounded
    /\ \E p \in graph.nodes : Cardinality(find_future_particles(graph, p)) = 2
    /\ \E p \in PositionsUpTo(MaxIoTime) \ graph.nodes :
          {e[1] : e \in find_all_data_of_position(position_data, p)} = DataNames
    /\ \E p \in graph.nodes : find_all_data_of_position(position_data, p) # {}
    /\ graph.edges = before.edges

\* C16 (as claimed): after links data was loaded with a time window, by
\* _parse_links_format or by load_links_from_json, no link has an endpoint
\* outside the window and no position outside the window has position data.
C16_LoadedInsideWindow ==
    op \in {"_parse_links_format", "load_links_from_json"} =>
        /\ \A e \in graph.edges :
               /\ InWindow(e[1], MinTimePoint, MaxTimePoint)
               /\ InWindow(e[2], MinTimePoint, MaxTimePoint)
        /\ \A t \in position_data : InWindow(t[1], MinTimePoint, MaxTimePoint)

----------------------------------------------------------------------------
(* Properties of the shape serialization *)

\* C17: from_list of the empty list returns an UnknownShape, for which
\* is_unknown() is True; from_list of a list that is not empty and whose first
\* element is neither "ellipse" nor "gaussian" raises ValueError and returns
\* no shape.
C17_EmptyIsUnknownOtherTagsRejected ==
    op \in {"from_list", "from_list(to_list)"} =>
        /\ Len(before) = 0 =>
               /\ result.raised = "none"
               /\ result.value = UnknownShape
               /\ is_unknown(result.value)
        /\ (Len(before) > 0 /\ before[1] \notin {"ellipse", "gaussian"}) =>
               result = Raised("ValueError")

\* A list with the first element "Ellipse" and two numbers was rejected with
\* ValueError.
C17_Witness ==
    /\ op = "from_list"
    /\ Len(before) = 3
    /\ before[1] = "Ellipse"
    /\ result.raised = "ValueError"

\* C18: from_list(s.to_list()) returns a shape of the variant of s with the
\* fields of s, so with the same is_unknown(), areas and perimeter, and the
\* to_list() of that shape is s.to_list().
C18_ShapeRoundTrip ==
    op = "from_list(to_list)" =>
        /\ result.raised = "none"
        /\ result.value.variant = args[2].variant
        /\ result.value = args[2]
        /\ is_unknown(result.value) = is_unknown(args[2])
        /\ raw_area(result.value) = raw_area(args[2])
        /\ fitted_area(result.value) = fitted_area(args[2])
        /\ perimeter(result.value) = perimeter(args[2])
        /\ to_list(result.value) = before
        /\ before = to_list(args[2])

\* An eccentric ellipse without original perimeter came back.
C18_Witness ==
    /\ op = "from_list(to_list)"
    /\ result.raised = "none"
    /\ result.value.variant = "ellipse"
    /\ result.value.eccentric
    /\ result.value.original_perimeter = None
    /\ result.value.ellipse_width # result.value.ellipse_height
    /\ result.value = args[2]

----------------------------------------------------------------------------
(* Properties of the lineage tree *)

\* The track holds a position with an error marker.
ContainsError(track, errors) == \E i \in 1..Len(track) : track[i] \in errors

\* The track starts at a next position of the last position of the other.
ComesDirectlyAfter(g, track, other) ==
    <<find_last_position(other), track[1]>> \in g.edges

\* C19: _find_tracks_with_errors returns exactly the tracks that hold a
\* position with an error marker and the tracks that come directly after such
\* a track; later and earlier tracks are in the set only for errors of their
\* own, and a position with an error marker that is in no track adds nothing.
C19_ErroredTracksAndDirectNextTracks ==
    op = "_find_tracks_with_errors" =>
        result = {track \in find_all_tracks(graph) :
                     \/ ContainsError(track, error_markers)
                     \/ \E other \in find_all_tracks(graph) :
                            /\ ContainsError(other, error_markers)
                            /\ ComesDirectlyAfter(graph, track, other)}

\* An error in a track whose next tracks have next tracks themselves, and an
\* error on a position without links: the set holds the track and its next
\* tracks, and not the tracks after those.
C19_Witness ==
    /\ op = "_find_tracks_with_errors"
    /\ \E e \in error_markers : ~has_track(graph, e)
    /\ \E e \in error_markers :
          /\ has_track(graph, e)
          /\ LET track == get_track(graph, e) IN
             /\ track \in result
             /\ get_next_tracks(graph, track) # {}
             /\ get_next_tracks(graph, track) \subseteq result
             /\ \E next_track \in get_next_tracks(graph, track) :
                    /\ get_next_tracks(graph, next_track) # {}
                    /\ get_next_tracks(graph, next_track) \cap result = {}

\* The starting track of the lineage of the track.
StartingTrackOf(g, track) == positions_from(g, LineageRoot(g, track[1]))

\* The color stored for the lineage that starts with the track, black when
\* none is stored.
StoredColor(data, starting_track) ==
    IF \E t \in data : t[1] = starting_track[1] /\ t[2] = "color"
    THEN [rgb |-> (CHOOSE t \in data : t[1] = starting_track[1] /\ t[2] = "color")[3]]
    ELSE [rgb |-> 0]

\* C20: after every call of _calculate_track_colors the keys of the map are
\* exactly the tracks of the lineages whose starting track has a next track,
\* each with the color stored for its lineage; starting tracks without next
\* tracks and tracks that only existed before the last change of the links
\* are no keys.
C20_TrackColors ==
    op = "_calculate_track_colors" =>
        /\ DOMAIN track_to_color =
               {track \in find_all_tracks(graph) :
                   find_future_particles(
                       graph, find_last_position(StartingTrackOf(graph, track))) # {}}
        /\ \A track \in DOMAIN track_to_color :
               track_to_color[track] =
                   StoredColor(position_data, StartingTrackOf(graph, track))

\* The second call, after a position was removed: a lineage with a stored
\* color has its tracks in the map, a starting track without next tracks is
\* left out, and so is a track of the colored lineages of before the removal
\* that is no track any more.
C20_Witness ==
    /\ op = "_calculate_track_colors"
    /\ before # EmptyGraph
    /\ \E track \in DOMAIN track_to_color :
          /\ track_to_color[track].rgb # 0
          /\ track # StartingTrackOf(graph, track)
    /\ \E track \in find_starting_tracks(graph) : track \notin DOMAIN track_to_color
    /\ \E track \in find_all_tracks(before) \ find_all_tracks(graph) :
          find_future_particles(
              before, find_last_position(StartingTrackOf(before, track))) # {}

====
